---- MODULE Spec2Model ----
(***************************************************************************)
(* State-machine model of the decision core of the ML backend:             *)
(*   - SafetyController (safety/safety_controller.py) and the decision     *)
(*     endpoints that gate model outputs with it (api/main.py),            *)
(*   - FeatureStore (features/feature_store.py), called one at a time and  *)
(*     by interleaving threads,                                            *)
(*   - the bandits (models/optimization/contextual_bandits.py),            *)
(*   - BOCPDModel (models/anomaly/bocpd.py),                               *)
(*   - EVTModel (models/tail_control/evt_pot.py),                          *)
(*   - ConfigManager (config/config_manager.py).                           *)
(* Each component has its own specification over the shared variables; a   *)
(* specification leaves the other components' variables unchanged.         *)
(***************************************************************************)
EXTENDS Integers, Sequences, FiniteSets, TLC

VARIABLES
    checks,                 \* SafetyController.checks: model type -> list of SafetyCheck
    human_override_active,  \* SafetyController.human_override_active
    emergency_mode,         \* SafetyController.emergency_mode
    violation_history,      \* SafetyController.violation_history
    features,               \* FeatureStore.features: name -> Feature
    now,                    \* the wall clock read by datetime.now(), in seconds
    bandit,                 \* a bandit object: ContextualBanditUCB, or OnlineTuningBandit
                            \* with the policy it holds in self.bandit
    pairing,                \* how the select and observe calls on the bandit paired up so far
    SCIPY_AVAILABLE,        \* the module flag of bocpd.py and of evt_pot.py: whether scipy
                            \* could be imported
    detector,               \* BOCPDModel
    stream,                 \* the observations fed to the detector since construction or
                            \* reset, and what update returned for each
    evt,                    \* EVTModel
    inflight,               \* the calls of get_feature and invalidate_cache that threads
                            \* have under way on the feature store, statement by statement
    config,                 \* ConfigManager: versions and active_version
    last                    \* the last operation called, its arguments and what it returned

safetyVars == <<checks, human_override_active, emergency_mode, violation_history>>
storeVars == <<features, now>>
banditVars == <<bandit, pairing>>
detectorVars == <<SCIPY_AVAILABLE, detector, stream>>
tailVars == <<evt>>
raceVars == <<inflight>>
configVars == <<config>>
vars == <<checks, human_override_active, emergency_mode, violation_history,
          features, now, bandit, pairing, SCIPY_AVAILABLE, detector, stream, evt,
          inflight, config, last>>

(***************************************************************************)
(* Bounds of the model.                                                    *)
(***************************************************************************)
MaxChecks == 2      \* checks registered per model type
MaxHistory == 1     \* entries of violation_history
NumArms == 3        \* arms of a bandit (num_arms, num_configs)

(***************************************************************************)
(* Python values.                                                          *)
(***************************************************************************)
\* dict.get(key, default)
Get(d, key, default) == IF key \in DOMAIN d THEN d[key] ELSE default

\* A context argument that is None (validate's default) rather than a dict.
NoneCtx == [none |-> TRUE]
IsNone(ctx) == "none" \in DOMAIN ctx

\* Python's None among the integer values (Feature.cached_value, Feature.last_updated)
None == -1

\* class SafetyLevel
Severities == {"safe", "warning", "unsafe", "critical"}

\* f"{check.name}: {detail}", kept as the pair of its parts
Msg(name, detail) == <<name, detail>>

(***************************************************************************)
(* The check predicates: the lambdas of register_default_safety_checks.    *)
(* Numeric metrics are in hundredths (canary_metric 0.2 is 20).  A call    *)
(* yields "pass", "fail", or "raise" when evaluating the lambda throws     *)
(* (ctx.get on a None context).                                            *)
(***************************************************************************)
CallCheck(fn, out, ctx) ==
    CASE fn = "worker_count_reasonable" ->
            IF 1 <= Get(out, "next_hour_workers", 0) /\ Get(out, "next_hour_workers", 0) <= 100
            THEN "pass" ELSE "fail"
      [] fn = "queue_capacity_reasonable" ->
            IF 50 <= Get(out, "queue_capacity", 0) /\ Get(out, "queue_capacity", 0) <= 10000
            THEN "pass" ELSE "fail"
      [] fn = "latency_predictions_reasonable" ->
            IF Get(out, "p99_pred", 0) < 5000 THEN "pass" ELSE "fail"
      [] fn = "autoscale_within_limits" ->
            IF Get(out, "autoscale_workers", 0) <= 50 THEN "pass" ELSE "fail"
      [] fn = "canary_percentage_safe" ->
            IF 0 <= Get(out, "canary_percentage", 0) /\ Get(out, "canary_percentage", 0) <= 10
            THEN "pass" ELSE "fail"
      [] fn = "freeze_on_low_metric" ->
            IF IsNone(ctx) THEN "raise"
            ELSE IF ~(Get(ctx, "canary_metric", 100) < 20
                      /\ Get(out, "freeze_on_anomaly", "none") # "yes")
                 THEN "pass" ELSE "fail"
      [] fn = "require_persistence" ->
            IF Get(out, "alert_level", "none") # "critical"
               \/ Get(out, "persistence_required", "none") = "yes"
            THEN "pass" ELSE "fail"

\* SafetyCheck(name, check_fn, severity, description), enabled defaulting to True
SafetyCheck(name, fn, severity, description) ==
    [name |-> name, check_fn |-> fn, severity |-> severity,
     description |-> description, enabled |-> TRUE]

(***************************************************************************)
(* SafetyController.validate                                               *)
(***************************************************************************)
\* the accumulators of the loop before its first iteration
EmptyAcc == [violations |-> <<>>, warnings |-> <<>>, highest |-> "safe", invoked |-> <<>>]

\* a mutant of OnCheckFailed: a failed warning-severity check is filed as a violation
OnCheckFailed_WarningAsViolation(check, acc) ==
    IF check.severity \in {"warning", "unsafe", "critical"}
    THEN [acc EXCEPT !.violations = Append(@, Msg(check.name, check.description)),
                     !.highest = IF check.severity = "critical" THEN "critical"
                                 ELSE IF @ # "critical" THEN "unsafe" ELSE @]
    ELSE acc

\* if not passed: ... (the body of the try block after the predicate returned falsy)
OnCheckFailed(check, acc) ==
    IF check.severity \in {"unsafe", "critical"}
    THEN [acc EXCEPT !.violations = Append(@, Msg(check.name, check.description)),
                     !.highest = IF check.severity = "critical" THEN "critical"
                                 ELSE IF @ # "critical" THEN "unsafe" ELSE @]
    ELSE IF check.severity = "warning"
    THEN [acc EXCEPT !.warnings = Append(@, Msg(check.name, check.description)),
                     !.highest = IF @ = "safe" THEN "warning" ELSE @]
    ELSE acc

\* a mutant of OnCheckError: a throwing predicate is filed without raising the severity
OnCheckError_KeepsSeverity(check, acc) ==
    [acc EXCEPT !.violations = Append(@, Msg(check.name, "check_error"))]

\* a mutant of OnCheckError: a throwing predicate is filed under the check's own severity
OnCheckError_BySeverity(check, acc) ==
    IF check.severity \in {"unsafe", "critical"}
    THEN [acc EXCEPT !.violations = Append(@, Msg(check.name, "check_error")),
                     !.highest = "unsafe"]
    ELSE [acc EXCEPT !.warnings = Append(@, Msg(check.name, "check_error"))]

\* except Exception: the predicate threw
OnCheckError(check, acc) ==
    [acc EXCEPT !.violations = Append(@, Msg(check.name, "check_error")),
                !.highest = "unsafe"]

\* one iteration of "for check in checks"
CheckStep(check, out, ctx, acc) ==
    IF ~check.enabled THEN acc
    ELSE LET outcome == CallCheck(check.check_fn, out, ctx)
             called == [acc EXCEPT !.invoked = Append(@, check.name)]
         IN  IF outcome = "raise" THEN OnCheckError(check, called)
             ELSE IF outcome = "fail" THEN OnCheckFailed(check, called)
             ELSE called

RECURSIVE RunChecks(_, _, _, _, _)
RunChecks(chs, i, out, ctx, acc) ==
    IF i > Len(chs) THEN acc
    ELSE RunChecks(chs, i + 1, out, ctx, CheckStep(chs[i], out, ctx, acc))

\* the emergency-mode short-circuit
EmergencyOutcome ==
    [invoked |-> <<>>,
     result |-> [violations |-> << <<"emergency_mode_active">> >>, warnings |-> <<>>,
                 is_safe |-> FALSE, safety_level |-> "critical",
                 metadata |-> [emergency_mode |-> TRUE]],
     history |-> violation_history]

\* the human-override short-circuit
OverrideOutcome ==
    [invoked |-> <<>>,
     result |-> [violations |-> <<>>, warnings |-> << <<"human_override_active">> >>,
                 is_safe |-> TRUE, safety_level |-> "safe",
                 metadata |-> [human_override |-> TRUE]],
     history |-> violation_history]

\* "if violations: self.violation_history.append(...)" (the timestamp is left out)
RecordViolations(mt, out, violations) ==
    IF violations # <<>>
    THEN Append(violation_history,
                [violations |-> violations, model_type |-> mt, output |-> out])
    ELSE violation_history

\* running the checks of the model type and building the result
ChecksOutcome(mt, out, ctx) ==
    LET chs == Get(checks, mt, <<>>)
        acc == RunChecks(chs, 1, out, ctx, EmptyAcc)
    IN  [invoked |-> acc.invoked,
         result |-> [violations |-> acc.violations, warnings |-> acc.warnings,
                     is_safe |-> Len(acc.violations) = 0, safety_level |-> acc.highest,
                     metadata |-> [model_type |-> mt, checks_run |-> Len(chs)]],
         history |-> RecordViolations(mt, out, acc.violations)]

\* a mutant of ValidateOutcome: the override switch is read before the emergency switch
ValidateOutcome_OverrideFirst(mt, out, ctx) ==
    IF human_override_active THEN OverrideOutcome
    ELSE IF emergency_mode THEN EmergencyOutcome
    ELSE ChecksOutcome(mt, out, ctx)

\* a mutant of ValidateOutcome: the override switch is not read
ValidateOutcome_NoOverride(mt, out, ctx) ==
    IF emergency_mode THEN EmergencyOutcome
    ELSE ChecksOutcome(mt, out, ctx)

\* what validate returns, the predicates it invoked, and the history it leaves
ValidateOutcome(mt, out, ctx) ==
    IF emergency_mode THEN EmergencyOutcome
    ELSE IF human_override_active THEN OverrideOutcome
    ELSE ChecksOutcome(mt, out, ctx)

\* SafetyController.get_fallback_output
Fallback(mt) ==
    CASE mt = "capacity_planning" ->
            [next_hour_workers |-> 5, queue_capacity |-> 200,
             action |-> "maintain_current", guardrail |-> "safety_fallback"]
      [] mt = "tail_slo" ->
            [action |-> "admit_throttle", autoscale_workers |-> 0,
             recommendation |-> "manual_review_required"]
      [] mt = "bandit" ->
            [action |-> "exploit", best_config_id |-> 1, reason |-> "safety_fallback"]
      [] mt = "extreme_events" ->
            [alert_level |-> "warning", persistence_required |-> "yes"]
      [] OTHER -> [action |-> "no_action", reason |-> "safety_fallback"]

(***************************************************************************)
(* Actions of the safety controller.                                       *)
(***************************************************************************)
\* the inputs the actions draw from
RegTypes == {"capacity_planning"}
ValTypes == {"capacity_planning", "bandit"}
RegChecks == {"worker_count_reasonable", "freeze_on_low_metric"}
SafetyOutputs == {[next_hour_workers |-> 5], [next_hour_workers |-> 101]}
SafetyContexts == {NoneCtx, [canary_metric |-> 10], [canary_metric |-> 40]}

\* SafetyController.register_check
RegisterCheck(mt, name, fn, severity, description) ==
    /\ Len(Get(checks, mt, <<>>)) < MaxChecks
    /\ checks' = [t \in DOMAIN checks \cup {mt} |->
                    IF t = mt
                    THEN Append(Get(checks, mt, <<>>),
                                SafetyCheck(name, fn, severity, description))
                    ELSE checks[t]]
    /\ last' = [op |-> "register_check"]
    /\ UNCHANGED <<human_override_active, emergency_mode, violation_history, storeVars, banditVars, detectorVars, tailVars, configVars, raceVars>>

\* SafetyController.validate
Validate(mt, out, ctx) ==
    /\ Len(violation_history) < MaxHistory
    /\ LET r == ValidateOutcome(mt, out, ctx)
       IN  /\ violation_history' = r.history
           /\ last' = [invoked |-> r.invoked, result |-> r.result, model_type |-> mt,
                       output |-> out, op |-> "validate", context |-> ctx]
    /\ UNCHANGED <<checks, human_override_active, emergency_mode, storeVars, banditVars, detectorVars, tailVars, configVars, raceVars>>

\* SafetyController.enable_emergency_mode
EnableEmergencyMode ==
    /\ emergency_mode' = TRUE
    /\ last' = [op |-> "enable_emergency_mode"]
    /\ UNCHANGED <<checks, human_override_active, violation_history, storeVars, banditVars, detectorVars, tailVars, configVars, raceVars>>

\* SafetyController.disable_emergency_mode
DisableEmergencyMode ==
    /\ emergency_mode' = FALSE
    /\ last' = [op |-> "disable_emergency_mode"]
    /\ UNCHANGED <<checks, human_override_active, violation_history, storeVars, banditVars, detectorVars, tailVars, configVars, raceVars>>

\* SafetyController.enable_human_override
EnableHumanOverride ==
    /\ human_override_active' = TRUE
    /\ last' = [op |-> "enable_human_override"]
    /\ UNCHANGED <<checks, emergency_mode, violation_history, storeVars, banditVars, detectorVars, tailVars, configVars, raceVars>>

\* SafetyController.disable_human_override
DisableHumanOverride ==
    /\ human_override_active' = FALSE
    /\ last' = [op |-> "disable_human_override"]
    /\ UNCHANGED <<checks, emergency_mode, violation_history, storeVars, banditVars, detectorVars, tailVars, configVars, raceVars>>

(***************************************************************************)
(* The objects api/main.py builds at import besides the safety controller: *)
(* the tuning bandit and the changepoint detector.  Rewards and Beta       *)
(* parameters are in hundredths (1.0 is 100); probabilities and densities  *)
(* of the detector are in thousandths (1.0 is 1000).                       *)
(***************************************************************************)
\* 1.0 as a reward or Beta parameter
One == 100
\* 1.0 as a probability or density
Unit == 1000
\* BOCPDModel.__init__ defaults: hazard_rate 1/250 and threshold 0.5
DEFAULT_HAZARD_RATE == 4
DEFAULT_THRESHOLD == 500

\* BanditArm(config_id=i, name, rewards=[], contexts=[]), n_pulls defaulting to 0
BanditArm == [rewards |-> <<>>, n_pulls |-> 0]

\* ContextualBanditUCB.__init__
NewUCB(num_arms) ==
    [n_pulls |-> <<>>, method |-> "ucb", arms |-> [i \in 1..num_arms |-> BanditArm],
     total_pulls |-> 0, alpha |-> <<>>, beta |-> <<>>]

\* ThompsonSamplingBandit.__init__, prior_alpha and prior_beta defaulting to 1.0
NewThompson(num_arms) ==
    [n_pulls |-> [i \in 1..num_arms |-> 0], method |-> "thompson_sampling", arms |-> <<>>,
     total_pulls |-> 0, alpha |-> [i \in 1..num_arms |-> One],
     beta |-> [i \in 1..num_arms |-> One]]

\* OnlineTuningBandit.__init__: self.method and self.bandit
NewTuning(num_configs, method) ==
    IF method = "ucb" THEN NewUCB(num_configs) ELSE NewThompson(num_configs)

\* no select or observe call was made yet
NoPairing == [serial |-> TRUE, pending |-> None, picks |-> <<>>, faithful |-> TRUE,
              handed |-> <<>>]

\* run_length_dist = None: the array update builds always has an entry, so the
\* empty one is free to stand for None
NoBelief == <<>>

\* the attribute recent_values does not exist: _simple_update creates it as []
\* before it looks at it, so the empty list stands for its absence
NoValues == <<>>

\* BOCPDModel.__init__
NewDetector(hazard_rate, threshold) ==
    [hazard_rate |-> hazard_rate, threshold |-> threshold,
     run_length_dist |-> NoBelief, observation_params |-> <<>>,
     changepoints |-> <<>>, step |-> 0, recent_values |-> NoValues]

\* nothing was fed to the detector yet
EmptyStream == [fed |-> <<>>, returned |-> <<>>]

\* EVTModel.__init__ and its defaults: threshold_percentile 0.95 in hundredths
DEFAULT_PERCENTILE == 95
DEFAULT_WINDOW == 10
DEFAULT_MIN_EXCEEDANCES == 10
\* class ConfigStatus
ConfigStatus ==
    {"draft", "validating", "approved", "deploying", "active", "rolled_back", "deprecated"}

\* ConfigVersion(..., status=ConfigStatus.DRAFT, ...) as create_version builds it;
\* reached_approved tells whether the status has been APPROVED at some time
ConfigVersion == [status |-> "draft", reached_approved |-> FALSE]

\* ConfigManager.__init__; a version is referred to by its position in versions,
\* which is the number its version_id starts with
NewConfigManager == [versions |-> <<>>, active_version |-> None]

\* the threads that call into the shared feature store
Threads == {1, 2}

\* no call under way: every thread is outside the store; computation 0 stands
\* for "no computation" as the writer of a cache field
NoCalls ==
    [context |-> [t \in Threads |-> None],
     pc |-> [t \in Threads |-> "idle"],
     value |-> [t \in Threads |-> None],
     computation |-> [t \in Threads |-> 0],
     computed_before |-> [t \in Threads |-> {}],
     overtaken |-> {},
     calls |-> 0,
     value_by |-> 0,
     time_by |-> 0]

NewEVT(threshold_percentile, declustering_window, min_exceedances) ==
    [threshold |-> None,
     threshold_percentile |-> threshold_percentile,
     declustering_window |-> declustering_window,
     min_exceedances |-> min_exceedances, gpd_shape |-> None, gpd_scale |-> None, fitted |-> FALSE]

\* SafetyController.__init__ (and FeatureStore.__init__)
Init ==
    /\ checks = <<>>
    /\ human_override_active = FALSE
    /\ emergency_mode = FALSE
    /\ violation_history = <<>>
    /\ features = <<>>
    /\ now = 0
    /\ bandit = NewTuning(NumArms, "thompson_sampling")
    /\ pairing = NoPairing
    /\ SCIPY_AVAILABLE = TRUE
    /\ detector = NewDetector(DEFAULT_HAZARD_RATE, DEFAULT_THRESHOLD)
    /\ stream = EmptyStream
    /\ evt = NewEVT(DEFAULT_PERCENTILE, DEFAULT_WINDOW, DEFAULT_MIN_EXCEEDANCES)
    /\ inflight = NoCalls
    /\ config = NewConfigManager
    /\ last = [op |-> "init"]

SafetyNext ==
    \/ \E mt \in RegTypes, fn \in RegChecks, sev \in Severities :
          RegisterCheck(mt, fn, fn, sev, "description")
    \/ \E mt \in ValTypes, out \in SafetyOutputs, ctx \in SafetyContexts :
          Validate(mt, out, ctx)
    \/ EnableEmergencyMode
    \/ DisableEmergencyMode
    \/ EnableHumanOverride
    \/ DisableHumanOverride

\* the safety controller driven by registrations, validations and the switches
SpecSafety == Init /\ [][SafetyNext]_vars

(***************************************************************************)
(* The decision endpoints of the API (api/main.py), with the default       *)
(* checks registered at import.                                            *)
(***************************************************************************)
\* the registry after register_default_safety_checks()
DefaultChecks ==
    [t \in {"capacity_planning", "tail_slo", "bandit", "extreme_events"} |->
        CASE t = "capacity_planning" ->
                << SafetyCheck("worker_count_reasonable", "worker_count_reasonable", "unsafe",
                               "Worker count must be between 1 and 100"),
                   SafetyCheck("queue_capacity_reasonable", "queue_capacity_reasonable", "warning",
                               "Queue capacity should be between 50 and 10000") >>
          [] t = "tail_slo" ->
                << SafetyCheck("latency_predictions_reasonable", "latency_predictions_reasonable",
                               "warning", "P99 prediction seems unreasonably high (>5s)"),
                   SafetyCheck("autoscale_within_limits", "autoscale_within_limits", "unsafe",
                               "Autoscale recommendation exceeds limit (50 workers)") >>
          [] t = "bandit" ->
                << SafetyCheck("canary_percentage_safe", "canary_percentage_safe", "critical",
                               "Canary percentage must be between 0-10%"),
                   SafetyCheck("freeze_on_low_metric", "freeze_on_low_metric", "unsafe",
                               "Should freeze exploration when canary metric is very low") >>
          [] t = "extreme_events" ->
                << SafetyCheck("require_persistence", "require_persistence", "warning",
                               "Critical alerts should require persistence checks") >>]

\* the request metrics (input_data.dict()), canary_metric in hundredths
Metrics == {[canary_metric |-> m] : m \in {10, 25, 40}}

\* the fields of the model outputs that the checks read
CapacityOutputs ==
    {[next_hour_workers |-> w, queue_capacity |-> q] : w \in {5, 101}, q \in {100, 20000}}
TailSloOutputs ==
    {[autoscale_workers |-> 0, p99_pred |-> 400],
     [autoscale_workers |-> 1, p99_pred |-> 6000],
     [autoscale_workers |-> 51, p99_pred |-> 6000]}
ExtremeOutputs ==
    {[alert_level |-> a, persistence_required |-> p] :
        a \in {"normal", "warning", "critical"}, p \in {"yes", "no"}}

\* OnlineTuningBandit.select_config, the fields the checks read, for a selected arm
SelectConfigOutput(metrics, arm) ==
    IF Get(metrics, "canary_metric", 40) < 30
    THEN [action |-> "exploit", best_config_id |-> arm + 1,
          reason |-> "anomaly_detected_frozen", freeze_on_anomaly |-> "yes",
          canary_percentage |-> 0]
    ELSE LET tenths == Get(metrics, "canary_metric", 40) \div 10
             atLeast1 == IF tenths < 1 THEN 1 ELSE tenths
         IN  [best_config_id |-> arm + 1,
              freeze_on_anomaly |-> "no",
              canary_percentage |-> IF atLeast1 > 5 THEN 5 ELSE atLeast1]

\* the response of an endpoint: MLOutput(data=..., safety_check=...)
Respond(endpoint, raw, data, r) ==
    /\ violation_history' = r.history
    /\ last' = [op |-> "endpoint", endpoint |-> endpoint, raw |-> raw, data |-> data,
                safety_check |-> r.result]
    /\ UNCHANGED <<checks, human_override_active, emergency_mode, storeVars, banditVars, detectorVars, tailVars, configVars, raceVars>>

\* POST /models/capacity-planning
capacity_planning(raw, metrics) ==
    /\ Len(violation_history) < MaxHistory
    /\ LET r == ValidateOutcome("capacity_planning", raw, metrics)
       IN  Respond("capacity_planning", raw,
                   IF ~r.result.is_safe THEN Fallback("capacity_planning") ELSE raw, r)

\* POST /models/tail-slo
tail_slo_control(raw, metrics) ==
    /\ Len(violation_history) < MaxHistory
    /\ LET r == ValidateOutcome("tail_slo", raw, metrics)
       IN  Respond("tail_slo", raw,
                   IF ~r.result.is_safe THEN Fallback("tail_slo") ELSE raw, r)

\* POST /models/extreme-events
extreme_events(raw, metrics) ==
    /\ Len(violation_history) < MaxHistory
    /\ LET r == ValidateOutcome("extreme_events", raw, metrics)
       IN  Respond("extreme_events", raw, raw, r)

\* POST /models/bandit
online_tuning_bandit(raw, metrics) ==
    /\ Len(violation_history) < MaxHistory
    /\ LET r == ValidateOutcome("bandit", raw, metrics)
       IN  Respond("bandit", raw,
                   IF ~r.result.is_safe THEN Fallback("bandit") ELSE raw, r)

\* the module-level state of api/main.py after import
InitApi ==
    /\ checks = DefaultChecks
    /\ human_override_active = FALSE
    /\ emergency_mode = FALSE
    /\ violation_history = <<>>
    /\ features = <<>>
    /\ now = 0
    /\ bandit = NewTuning(NumArms, "thompson_sampling")
    /\ pairing = NoPairing
    /\ SCIPY_AVAILABLE = TRUE
    /\ detector = NewDetector(DEFAULT_HAZARD_RATE, DEFAULT_THRESHOLD)
    /\ stream = EmptyStream
    /\ evt = NewEVT(DEFAULT_PERCENTILE, DEFAULT_WINDOW, DEFAULT_MIN_EXCEEDANCES)
    /\ inflight = NoCalls
    /\ config = NewConfigManager
    /\ last = [op |-> "init"]

ApiNext ==
    \/ \E raw \in CapacityOutputs, m \in Metrics : capacity_planning(raw, m)
    \/ \E raw \in TailSloOutputs, m \in Metrics : tail_slo_control(raw, m)
    \/ \E raw \in ExtremeOutputs, m \in Metrics : extreme_events(raw, m)
    \/ \E arm \in 0..4, m \in Metrics : online_tuning_bandit(SelectConfigOutput(m, arm), m)
    \/ EnableEmergencyMode
    \/ DisableEmergencyMode
    \/ EnableHumanOverride
    \/ DisableHumanOverride

\* the API serving decision requests and operator switches
SpecApi == InitApi /\ [][ApiNext]_vars

\* the decision types that register_default_safety_checks gives checks to; the
\* calls below also pass a type without checks, "scheduler"
FallbackTypes == DOMAIN DefaultChecks

\* validate(model_type, get_fallback_output(model_type), context)
ValidateFallback(mt, ctx) == Validate(mt, Fallback(mt), ctx)

FallbackNext ==
    \/ \E mt \in FallbackTypes \cup {"scheduler"}, ctx \in SafetyContexts \cup Metrics :
            ValidateFallback(mt, ctx)
    \/ EnableEmergencyMode
    \/ DisableEmergencyMode
    \/ EnableHumanOverride
    \/ DisableHumanOverride

\* the fallback outputs handed back to the gate, with the default checks
SpecFallback == InitApi /\ [][FallbackNext]_vars

(***************************************************************************)
(* FeatureStore (features/feature_store.py).                               *)
(* Feature values are non-negative integers; None is the value below.      *)
(* A compute function is one of:                                           *)
(*   "derive"        returns the context value plus the dependency values  *)
(*                   (throws a TypeError when a dependency value is None), *)
(*   "returns_none"  returns None,                                         *)
(*   "raises"        throws,                                               *)
(*   "no_fn"         compute_fn is None.                                   *)
(***************************************************************************)
\* Feature.ttl_seconds
TTL_SECONDS == 300
\* ticks of the clock, each of half a TTL
MaxTicks == 2
\* frames of get_feature the interpreter allows before it raises RecursionError
RecursionLimit == 4

\* Feature(name, feature_type, description, compute_fn, dependencies)
Feature(fn, deps) ==
    [compute_fn |-> fn, dependencies |-> deps, ttl_seconds |-> TTL_SECONDS,
     last_updated |-> None, cached_value |-> None]

\* a mutant of IsCacheValid: only the timestamp is looked at
IsCacheValid_TimestampOnly(feature) ==
    IF feature.last_updated = None THEN FALSE
    ELSE (now - feature.last_updated) < feature.ttl_seconds

\* a mutant of IsCacheValid: the age test is inverted
IsCacheValid_Inverted(feature) ==
    IF feature.cached_value = None \/ feature.last_updated = None THEN FALSE
    ELSE (now - feature.last_updated) >= feature.ttl_seconds

\* FeatureStore._is_cache_valid
IsCacheValid(feature) ==
    IF feature.cached_value = None \/ feature.last_updated = None THEN FALSE
    ELSE (now - feature.last_updated) < feature.ttl_seconds

RECURSIVE SumValues(_, _)
SumValues(dep_values, names) ==
    IF names = {} THEN 0
    ELSE LET n == CHOOSE x \in names : TRUE
         IN  dep_values[n] + SumValues(dep_values, names \ {n})

\* feature.compute_fn(context, dep_values): [raised, value]
Compute(fn, ctx, dep_values) ==
    CASE fn = "derive" ->
            IF \E n \in DOMAIN dep_values : dep_values[n] = None
            THEN [value |-> None, raised |-> TRUE]
            ELSE [value |-> ctx + SumValues(dep_values, DOMAIN dep_values), raised |-> FALSE]
      [] fn = "returns_none" -> [value |-> None, raised |-> FALSE]
      [] fn = "raises" -> [value |-> None, raised |-> TRUE]

\* what a call of get_feature leaves: the store, whether it returned, the value
\* returned or the exception raised, and the compute functions it invoked
Returned(fs, value, invoked) ==
    [invoked |-> invoked, value |-> value, fs |-> fs, ok |-> TRUE, error |-> "none",
     missing |-> ""]
Raised(fs, error, missing, invoked) ==
    [invoked |-> invoked, value |-> None, fs |-> fs, ok |-> FALSE, error |-> error,
     missing |-> missing]

RECURSIVE GetFeature(_, _, _, _)
RECURSIVE ResolveDeps(_, _, _, _, _, _)

\* a mutant of ResolveDeps: a dependency that is not registered resolves to None
ResolveDeps_MissingAsNone(fs, deps, i, ctx, depth, acc) ==
    IF i > Len(deps) THEN acc
    ELSE IF deps[i] \notin DOMAIN fs
    THEN ResolveDeps(fs, deps, i + 1, ctx, depth,
                     [acc EXCEPT !.dep_values =
                         [n \in DOMAIN @ \cup {deps[i]} |-> IF n = deps[i] THEN None ELSE @[n]]])
    ELSE LET r == GetFeature(acc.fs, deps[i], ctx, depth + 1)
         IN  IF ~r.ok
             THEN [acc EXCEPT !.fs = r.fs, !.ok = FALSE, !.error = r.error,
                              !.missing = r.missing, !.invoked = @ \o r.invoked]
             ELSE ResolveDeps(fs, deps, i + 1, ctx, depth,
                     [acc EXCEPT !.fs = r.fs, !.invoked = @ \o r.invoked,
                                 !.dep_values =
                                    [n \in DOMAIN @ \cup {deps[i]} |->
                                        IF n = deps[i] THEN r.value ELSE @[n]]])

\* "for dep_name in feature.dependencies: dep_values[dep_name] = self.get_feature(...)"
ResolveDeps(fs, deps, i, ctx, depth, acc) ==
    IF i > Len(deps) THEN acc
    ELSE LET r == GetFeature(acc.fs, deps[i], ctx, depth + 1)
         IN  IF ~r.ok
             THEN [acc EXCEPT !.fs = r.fs, !.ok = FALSE, !.error = r.error,
                              !.missing = r.missing, !.invoked = @ \o r.invoked]
             ELSE ResolveDeps(fs, deps, i + 1, ctx, depth,
                     [acc EXCEPT !.fs = r.fs, !.invoked = @ \o r.invoked,
                                 !.dep_values =
                                    [n \in DOMAIN @ \cup {deps[i]} |->
                                        IF n = deps[i] THEN r.value ELSE @[n]]])

\* a mutant of GetFeature: a call that finds the call stack exhausted returns None
\* instead of raising, so that the callers up the cycle go on to compute
GetFeature_GuardedCycle(fs, name, ctx, depth) ==
    IF depth > RecursionLimit THEN Returned(fs, None, <<>>)
    ELSE IF name \notin DOMAIN fs THEN Raised(fs, "ValueError", name, <<>>)
    ELSE IF IsCacheValid(fs[name]) THEN Returned(fs, fs[name].cached_value, <<>>)
    ELSE IF fs[name].compute_fn = "no_fn" THEN Returned(fs, None, <<>>)
    ELSE LET d == ResolveDeps(fs, fs[name].dependencies, 1, ctx, depth,
                              [invoked |-> <<>>, fs |-> fs, ok |-> TRUE, error |-> "none",
                               missing |-> "", dep_values |-> <<>>])
         IN  IF ~d.ok THEN Raised(d.fs, d.error, d.missing, d.invoked)
             ELSE LET c == Compute(fs[name].compute_fn, ctx, d.dep_values)
                      invoked == Append(d.invoked, name)
                  IN  IF c.raised THEN Raised(d.fs, "ComputeError", "", invoked)
                      ELSE Returned([d.fs EXCEPT ![name].cached_value = c.value,
                                                 ![name].last_updated = now],
                                    c.value, invoked)

\* FeatureStore.get_feature, called at the given depth of the call stack
GetFeature(fs, name, ctx, depth) ==
    IF depth > RecursionLimit THEN Raised(fs, "RecursionError", "", <<>>)
    ELSE IF name \notin DOMAIN fs THEN Raised(fs, "ValueError", name, <<>>)
    ELSE IF IsCacheValid(fs[name]) THEN Returned(fs, fs[name].cached_value, <<>>)
    ELSE IF fs[name].compute_fn = "no_fn" THEN Returned(fs, None, <<>>)
    ELSE LET d == ResolveDeps(fs, fs[name].dependencies, 1, ctx, depth,
                              [invoked |-> <<>>, fs |-> fs, ok |-> TRUE, error |-> "none",
                               missing |-> "", dep_values |-> <<>>])
         IN  IF ~d.ok THEN Raised(d.fs, d.error, d.missing, d.invoked)
             ELSE LET c == Compute(fs[name].compute_fn, ctx, d.dep_values)
                      invoked == Append(d.invoked, name)
                  IN  IF c.raised THEN Raised(d.fs, "ComputeError", "", invoked)
                      ELSE Returned([d.fs EXCEPT ![name].cached_value = c.value,
                                                 ![name].last_updated = now],
                                    c.value, invoked)

RECURSIVE VectorLoop(_, _, _, _)
\* "for name in feature_names: try: ... except Exception: features[name] = None"
VectorLoop(names, i, ctx, acc) ==
    IF i > Len(names) THEN acc
    ELSE LET r == GetFeature(acc.fs, names[i], ctx, 1)
         IN  VectorLoop(names, i + 1, ctx,
                [invoked |-> acc.invoked \o r.invoked, raised |-> FALSE, fs |-> r.fs,
                 features |-> [n \in DOMAIN acc.features \cup {names[i]} |->
                                  IF n = names[i]
                                  THEN (IF r.ok THEN r.value ELSE None)
                                  ELSE acc.features[n]]])

RECURSIVE VectorLoop_NoCatch(_, _, _, _)
\* the loop of the mutant below
VectorLoop_NoCatch(names, i, ctx, acc) ==
    IF i > Len(names) THEN acc
    ELSE LET r == GetFeature(acc.fs, names[i], ctx, 1)
         IN  IF ~r.ok
             THEN [acc EXCEPT !.fs = r.fs, !.raised = TRUE, !.invoked = @ \o r.invoked]
             ELSE VectorLoop_NoCatch(names, i + 1, ctx,
                    [invoked |-> acc.invoked \o r.invoked, raised |-> FALSE, fs |-> r.fs,
                     features |-> [n \in DOMAIN acc.features \cup {names[i]} |->
                                      IF n = names[i] THEN r.value ELSE acc.features[n]]])

\* a mutant of GetFeatureVectorOutcome: no try/except around get_feature
GetFeatureVectorOutcome_NoCatch(names, ctx) ==
    VectorLoop_NoCatch(names, 1, ctx,
        [invoked |-> <<>>, raised |-> FALSE, fs |-> features, features |-> <<>>])

\* FeatureStore.get_feature_vector: the store it leaves, whether it raised, and
\* FeatureVector.features
GetFeatureVectorOutcome(names, ctx) ==
    VectorLoop(names, 1, ctx,
        [invoked |-> <<>>, raised |-> FALSE, fs |-> features, features |-> <<>>])

\* the inputs the actions draw from
FeatureNames == {"A", "B", "C"}
RegInputs ==
    { <<"A", "derive", <<"B">> >>, <<"A", "derive", <<"B", "C">> >>,
      <<"A", "returns_none", <<"B">> >>,
      <<"B", "derive", <<>> >>, <<"B", "raises", <<>> >>, <<"B", "returns_none", <<>> >>,
      <<"B", "no_fn", <<>> >>, <<"B", "derive", <<"B">> >>,
      <<"A", "derive", <<>> >>, <<"B", "derive", <<"A", "B">> >> }
Contexts == {1, 2}
VectorNames == { <<"A", "B">>, <<"B", "A">>, <<"C", "B", "A">> }

\* a mutant of Registered: a name registered before keeps its cache entry
Registered_KeepsCache(fs, name, fn, deps) ==
    [n \in DOMAIN fs \cup {name} |->
        IF n # name THEN fs[n]
        ELSE IF name \in DOMAIN fs
        THEN [Feature(fn, deps) EXCEPT !.cached_value = fs[name].cached_value,
                                       !.last_updated = fs[name].last_updated]
        ELSE Feature(fn, deps)]

\* the features after "self.features[name] = Feature(...)"
Registered(fs, name, fn, deps) ==
    [n \in DOMAIN fs \cup {name} |-> IF n = name THEN Feature(fn, deps) ELSE fs[n]]

\* FeatureStore.register_feature; last.had_value tells whether the name was
\* registered before with a cache entry that was still valid
RegisterFeature(name, fn, deps) ==
    /\ features' = Registered(features, name, fn, deps)
    /\ last' = [name |-> name, op |-> "register_feature",
                had_value |-> IF name \in DOMAIN features
                              THEN IsCacheValid(features[name]) ELSE FALSE]
    /\ UNCHANGED <<safetyVars, now, banditVars, detectorVars, tailVars, configVars, raceVars>>

\* FeatureStore.get_feature; last.stored_null tells whether the call found the
\* entry of a computed null (a timestamp without a value)
GetFeatureCall(name, ctx) ==
    /\ LET r == GetFeature(features, name, ctx, 1)
       IN  /\ features' = r.fs
           /\ last' = [name |-> name, invoked |-> r.invoked, op |-> "get_feature",
                       context |-> ctx, value |-> r.value, ok |-> r.ok,
                       error |-> r.error, missing |-> r.missing,
                       stored_null |-> IF name \in DOMAIN features
                                       THEN /\ features[name].last_updated # None
                                            /\ features[name].cached_value = None
                                       ELSE FALSE]
    /\ UNCHANGED <<safetyVars, now, banditVars, detectorVars, tailVars, configVars, raceVars>>

\* FeatureStore.get_feature_vector
GetFeatureVector(names, ctx) ==
    /\ LET r == GetFeatureVectorOutcome(names, ctx)
       IN  /\ features' = r.fs
           /\ last' = [invoked |-> r.invoked, op |-> "get_feature_vector", context |-> ctx,
                       raised |-> r.raised, features |-> r.features,
                       names |-> names]
    /\ UNCHANGED <<safetyVars, now, banditVars, detectorVars, tailVars, configVars, raceVars>>

\* a mutant of Invalidated: a call without a name clears nothing
Invalidated_NamedOnly(feature_name) ==
    IF feature_name # "" /\ feature_name \in DOMAIN features
    THEN [features EXCEPT ![feature_name].cached_value = None,
                          ![feature_name].last_updated = None]
    ELSE features

\* a mutant of Invalidated: a named call also clears the features that list the
\* named one among their dependencies
Invalidated_WithDependents(feature_name) ==
    IF feature_name # ""
    THEN IF feature_name \in DOMAIN features
         THEN [n \in DOMAIN features |->
                 IF n = feature_name
                    \/ \E i \in 1..Len(features[n].dependencies) :
                          features[n].dependencies[i] = feature_name
                 THEN [features[n] EXCEPT !.cached_value = None, !.last_updated = None]
                 ELSE features[n]]
         ELSE features
    ELSE [n \in DOMAIN features |->
             [features[n] EXCEPT !.cached_value = None, !.last_updated = None]]

\* the features after invalidate_cache; a falsy name ("" here) stands for None
Invalidated(feature_name) ==
    IF feature_name # ""
    THEN IF feature_name \in DOMAIN features
         THEN [features EXCEPT ![feature_name].cached_value = None,
                               ![feature_name].last_updated = None]
         ELSE features
    ELSE [n \in DOMAIN features |->
             [features[n] EXCEPT !.cached_value = None, !.last_updated = None]]

\* FeatureStore.invalidate_cache; last.cleared are the features whose cache entry
\* was valid when the call was made
InvalidateCache(feature_name) ==
    /\ features' = Invalidated(feature_name)
    /\ last' = [name |-> feature_name, op |-> "invalidate_cache",
                cleared |-> {n \in DOMAIN features : IsCacheValid(features[n])}]
    /\ UNCHANGED <<safetyVars, now, banditVars, detectorVars, tailVars, configVars, raceVars>>

\* the clock advances between calls
Tick ==
    /\ now < MaxTicks * (TTL_SECONDS \div 2)
    /\ now' = now + (TTL_SECONDS \div 2)
    /\ UNCHANGED <<safetyVars, features, last, banditVars, detectorVars, tailVars, configVars, raceVars>>

StoreNext ==
    \/ \E reg \in RegInputs : RegisterFeature(reg[1], reg[2], reg[3])
    \/ \E name \in FeatureNames, ctx \in Contexts : GetFeatureCall(name, ctx)
    \/ \E names \in VectorNames, ctx \in Contexts : GetFeatureVector(names, ctx)
    \/ \E name \in FeatureNames \cup {""} : InvalidateCache(name)
    \/ Tick

\* the feature store driven by registrations, reads, invalidations and the clock
SpecStore == Init /\ [][StoreNext]_vars

(***************************************************************************)
(* Floating-point arithmetic, in fixed point.                              *)
(***************************************************************************)
RECURSIVE Bisect(_, _, _)
\* the largest r in lo..hi with r * r <= x
Bisect(x, lo, hi) ==
    IF lo >= hi THEN lo
    ELSE LET mid == (lo + hi + 1) \div 2
         IN  IF mid * mid <= x THEN Bisect(x, mid, hi) ELSE Bisect(x, lo, mid - 1)

\* np.sqrt, rounded down to an integer
ISqrt(x) == Bisect(x, 0, 46340)

\* np.log(k) in thousandths, for k = 1, 2, ...
LnMilli == <<0, 693, 1099, 1386, 1609, 1792, 1946, 2079, 2197, 2303, 2398, 2485>>

RECURSIVE Sum(_)
\* the sum of a list of numbers
Sum(s) == IF s = <<>> THEN 0 ELSE Head(s) + Sum(Tail(s))

\* int(np.argmax(xs)): the first position of the largest entry, counted from 0
ArgMax(xs) ==
    (CHOOSE i \in 1..Len(xs) :
        /\ \A j \in 1..Len(xs) : xs[j] <= xs[i]
        /\ \A j \in 1..(i - 1) : xs[j] < xs[i]) - 1

\* seq[i] of Python: the position in 1..n that i denotes, 0 when i is out of range
PyIndex(i, n) ==
    IF 0 <= i /\ i < n THEN i + 1
    ELSE IF -n <= i /\ i < 0 THEN n + i + 1
    ELSE 0

(***************************************************************************)
(* ContextualBanditUCB (models/optimization/contextual_bandits.py).        *)
(***************************************************************************)
\* pulls of a bandit the model follows
MaxPulls == 4
\* ContextualBanditUCB.__init__: exploration_factor, and what OnlineTuningBandit
\* passes for it (0.2 * 10)
EXPLORATION_FACTOR == 2

\* BanditArm.mean_reward, in thousandths
MeanReward(arm) ==
    IF arm.rewards = <<>> THEN 0 ELSE (Sum(arm.rewards) * 10) \div Len(arm.rewards)

\* mean_reward + exploration_factor * sqrt(log(total_pulls + 1) / (n_pulls + 1)),
\* in thousandths
UcbScore(arm, total_pulls) ==
    MeanReward(arm)
      + EXPLORATION_FACTOR * ISqrt((LnMilli[total_pulls + 1] * 1000) \div (arm.n_pulls + 1))

\* a mutant of SelectArm: no forced exploration, the scores alone decide
SelectArm_ScoresOnly(b) ==
    ArgMax([i \in 1..Len(b.arms) |-> UcbScore(b.arms[i], b.total_pulls)])

\* ContextualBanditUCB.select_arm
SelectArm(b) ==
    IF \E i \in 1..Len(b.arms) : b.arms[i].n_pulls = 0
    THEN (CHOOSE i \in 1..Len(b.arms) :
             /\ b.arms[i].n_pulls = 0
             /\ \A j \in 1..(i - 1) : b.arms[j].n_pulls # 0) - 1
    ELSE ArgMax([i \in 1..Len(b.arms) |-> UcbScore(b.arms[i], b.total_pulls)])

\* a mutant of UpdateUCB: the total is not counted
UpdateUCB_NoTotal(b, arm_id, reward) ==
    LET i == PyIndex(arm_id, Len(b.arms))
    IN  IF i = 0 THEN [raised |-> TRUE, bandit |-> b]
        ELSE [raised |-> FALSE,
              bandit |-> [b EXCEPT !.arms[i].rewards = Append(@, reward),
                                   !.arms[i].n_pulls = @ + 1]]

\* ContextualBanditUCB.update: [raised, bandit]; self.arms[arm_id] raises an
\* IndexError before anything is changed
UpdateUCB(b, arm_id, reward) ==
    LET i == PyIndex(arm_id, Len(b.arms))
    IN  IF i = 0 THEN [raised |-> TRUE, bandit |-> b]
        ELSE [raised |-> FALSE,
              bandit |-> [b EXCEPT !.arms[i].rewards = Append(@, reward),
                                   !.arms[i].n_pulls = @ + 1,
                                   !.total_pulls = @ + 1]]

\* ContextualBanditUCB.get_best_arm
GetBestArm(b) == ArgMax([i \in 1..Len(b.arms) |-> MeanReward(b.arms[i])])

\* callers that share one bandit: each has at most one select call whose observe
\* call is still to come
MaxCallers == 2

\* a list of arms without its first occurrence of arm
WithoutFirst(arms, arm) ==
    LET k == CHOOSE i \in 1..Len(arms) :
                 arms[i] = arm /\ \A j \in 1..(i - 1) : arms[j] # arm
    IN  [i \in 1..(Len(arms) - 1) |-> IF i < k THEN arms[i] ELSE arms[i + 1]]

\* the pairing after a select call that returned arm: serial while every select
\* call so far was followed by the observe call on its arm before the next
\* select call; faithful while every observe call so far was on an arm that a
\* select call handed out and that was not observed yet (handed lists those)
PairSelect(arm) ==
    LET handed == IF pairing.faithful THEN Append(pairing.handed, arm) ELSE <<>>
    IN  IF pairing.serial /\ pairing.pending = None
        THEN [serial |-> TRUE, pending |-> arm, picks |-> Append(pairing.picks, arm),
              faithful |-> pairing.faithful, handed |-> handed]
        ELSE [serial |-> FALSE, pending |-> None, picks |-> <<>>,
              faithful |-> pairing.faithful, handed |-> handed]

\* the pairing after an observe call on arm_id
PairObserve(arm_id, raised) ==
    LET known == /\ pairing.faithful
                 /\ ~raised
                 /\ \E i \in 1..Len(pairing.handed) : pairing.handed[i] = arm_id
        handed == IF known THEN WithoutFirst(pairing.handed, arm_id) ELSE <<>>
    IN  IF pairing.serial /\ pairing.pending # None /\ pairing.pending = arm_id /\ ~raised
        THEN [pairing EXCEPT !.pending = None, !.faithful = known, !.handed = handed]
        ELSE [serial |-> FALSE, pending |-> None, picks |-> <<>>,
              faithful |-> known, handed |-> handed]

\* the inputs the actions draw from
UcbArmIds == -1..NumArms
UcbRewards == {0, 100}

\* a call of ContextualBanditUCB.select_arm
SelectArmCall ==
    /\ Len(pairing.picks) <= MaxPulls
    /\ Len(pairing.handed) < MaxCallers
    /\ LET arm == SelectArm(bandit)
       IN  /\ pairing' = PairSelect(arm)
           /\ last' = [op |-> "select_arm", arm |-> arm]
    /\ UNCHANGED <<safetyVars, storeVars, bandit, detectorVars, tailVars, configVars, raceVars>>

\* a call of ContextualBanditUCB.update
UpdateCall(arm_id, reward) ==
    /\ bandit.total_pulls < MaxPulls
    /\ LET r == UpdateUCB(bandit, arm_id, reward)
       IN  /\ bandit' = r.bandit
           /\ pairing' = PairObserve(arm_id, r.raised)
           /\ last' = [op |-> "update", raised |-> r.raised, arm_id |-> arm_id,
                       reward |-> reward]
    /\ UNCHANGED <<safetyVars, storeVars, detectorVars, tailVars, configVars, raceVars>>

\* ContextualBanditUCB(num_arms)
InitUcb ==
    /\ checks = <<>>
    /\ human_override_active = FALSE
    /\ emergency_mode = FALSE
    /\ violation_history = <<>>
    /\ features = <<>>
    /\ now = 0
    /\ bandit = NewUCB(NumArms)
    /\ pairing = NoPairing
    /\ SCIPY_AVAILABLE = TRUE
    /\ detector = NewDetector(DEFAULT_HAZARD_RATE, DEFAULT_THRESHOLD)
    /\ stream = EmptyStream
    /\ evt = NewEVT(DEFAULT_PERCENTILE, DEFAULT_WINDOW, DEFAULT_MIN_EXCEEDANCES)
    /\ inflight = NoCalls
    /\ config = NewConfigManager
    /\ last = [op |-> "init"]

UcbNext ==
    \/ SelectArmCall
    \/ \E arm_id \in UcbArmIds, reward \in UcbRewards : UpdateCall(arm_id, reward)

\* the UCB policy driven by select and observe calls in any order
SpecUcb == InitUcb /\ [][UcbNext]_vars

(***************************************************************************)
(* ThompsonSamplingBandit and OnlineTuningBandit.                          *)
(***************************************************************************)
\* ThompsonSamplingBandit.update: [raised, bandit]; self.alpha[arm_id] raises an
\* IndexError before anything is changed
UpdateThompson(b, arm_id, reward) ==
    LET i == PyIndex(arm_id, Len(b.alpha))
    IN  IF i = 0 THEN [raised |-> TRUE, bandit |-> b]
        ELSE [raised |-> FALSE,
              bandit |-> [b EXCEPT !.alpha[i] = @ + reward,
                                   !.beta[i] = @ + (One - reward),
                                   !.n_pulls[i] = @ + 1]]

\* a mutant of Clamp: the reward is passed on as it is
Clamp_Identity(reward) == reward

\* max(0.0, min(1.0, reward))
Clamp(reward) ==
    LET capped == IF reward < One THEN reward ELSE One
    IN  IF capped > 0 THEN capped ELSE 0

\* OnlineTuningBandit.update_feedback: the reward handed to the policy, the arm it
\* is handed for, whether the policy raised, and the policy afterwards
UpdateFeedbackOutcome(b, config_id, reward) ==
    LET arm_id == config_id - 1
        normalized_reward == Clamp(reward)
        r == IF b.method = "ucb" THEN UpdateUCB(b, arm_id, normalized_reward)
             ELSE UpdateThompson(b, arm_id, normalized_reward)
    IN  [raised |-> r.raised, bandit |-> r.bandit, arm_id |-> arm_id,
         normalized_reward |-> normalized_reward]

\* "if hasattr(self.bandit, 'get_best_arm'): ... else: best_config_id = 0"
FrozenArm(b) == IF b.method = "ucb" THEN GetBestArm(b) ELSE 0

\* int(canary_metric * 10), canary_metric in hundredths: int() drops the fraction,
\* towards zero
IntTimes10(canary_metric) ==
    IF canary_metric >= 0 THEN canary_metric \div 10 ELSE -((-canary_metric) \div 10)

\* a mutant of CanaryPercentage: no upper clamp
CanaryPercentage_NoCeiling(canary_metric) ==
    IF IntTimes10(canary_metric) < 1 THEN 1 ELSE IntTimes10(canary_metric)

\* min(5, max(1, int(canary_metric * 10))), canary_metric in hundredths
CanaryPercentage(canary_metric) ==
    LET tenths == IntTimes10(canary_metric)
        atLeast1 == IF tenths < 1 THEN 1 ELSE tenths
    IN  IF atLeast1 > 5 THEN 5 ELSE atLeast1

\* a mutant of SelectConfigOutcome: the policy selects before the freeze is looked at
SelectConfigOutcome_SelectFirst(b, current_metrics, freeze_on_anomaly, sampled) ==
    LET canary_metric == Get(current_metrics, "canary_metric", 40)
        selected_arm == IF b.method = "ucb" THEN SelectArm(b) ELSE sampled
    IN  IF freeze_on_anomaly /\ canary_metric < 30
        THEN [result |-> [action |-> "exploit", best_config_id |-> FrozenArm(b) + 1,
                          reason |-> "anomaly_detected_frozen",
                          freeze_on_anomaly |-> "yes", canary_percentage |-> 0],
              selected |-> TRUE]
        ELSE [result |-> [best_config_id |-> selected_arm + 1,
                          method |-> b.method,
                          freeze_on_anomaly |-> "no",
                          canary_percentage |-> CanaryPercentage(canary_metric)],
              selected |-> TRUE]

\* OnlineTuningBandit.select_config: whether the policy's select_arm was invoked,
\* and the fields of the result that name the decision; sampled is the arm whose
\* Beta sample comes out largest when the Thompson policy draws
SelectConfigOutcome(b, current_metrics, freeze_on_anomaly, sampled) ==
    LET canary_metric == Get(current_metrics, "canary_metric", 40)
    IN  IF freeze_on_anomaly /\ canary_metric < 30
        THEN [result |-> [action |-> "exploit", best_config_id |-> FrozenArm(b) + 1,
                          reason |-> "anomaly_detected_frozen",
                          freeze_on_anomaly |-> "yes", canary_percentage |-> 0],
              selected |-> FALSE]
        ELSE LET selected_arm == IF b.method = "ucb" THEN SelectArm(b) ELSE sampled
             IN  [result |-> [best_config_id |-> selected_arm + 1,
                              method |-> b.method,
                              freeze_on_anomaly |-> "no",
                              canary_percentage |-> CanaryPercentage(canary_metric)],
                  selected |-> TRUE]

\* the observations a policy holds for the arm at position i: their number and sum
Pulls(b, i) == IF b.method = "ucb" THEN b.arms[i].n_pulls ELSE b.n_pulls[i]
RewardSum(b, i) == IF b.method = "ucb" THEN Sum(b.arms[i].rewards) ELSE b.alpha[i] - One
\* the mean observed reward of the arm at position i in thousandths, 0 without history
ObservedMean(b, i) ==
    IF Pulls(b, i) = 0 THEN 0 ELSE (RewardSum(b, i) * 10) \div Pulls(b, i)

\* update_feedback calls the model follows
MaxFeedback == 3

\* the inputs the actions draw from
TuningMethods == {"ucb", "thompson_sampling"}
TuningMetrics ==
    {[canary_metric |-> -55], [canary_metric |-> 29], [canary_metric |-> 30],
     [canary_metric |-> 1100], [p99 |-> 300]}
ConfigIds == -1..(NumArms + 1)
FeedbackRewards == {-50, 30, 250}

\* a call of OnlineTuningBandit.select_config
SelectConfigCall(current_metrics, freeze_on_anomaly, sampled) ==
    /\ LET o == SelectConfigOutcome(bandit, current_metrics, freeze_on_anomaly, sampled)
       IN  last' = [result |-> o.result, op |-> "select_config",
                    freeze_on_anomaly |-> freeze_on_anomaly, selected |-> o.selected,
                    metrics |-> current_metrics]
    /\ UNCHANGED <<safetyVars, storeVars, banditVars, detectorVars, tailVars, configVars, raceVars>>

\* a call of OnlineTuningBandit.update_feedback
UpdateFeedbackCall(config_id, reward) ==
    /\ Sum([i \in 1..NumArms |-> Pulls(bandit, i)]) < MaxFeedback
    /\ LET o == UpdateFeedbackOutcome(bandit, config_id, reward)
       IN  /\ bandit' = o.bandit
           /\ last' = [op |-> "update_feedback", raised |-> o.raised,
                       arm_id |-> o.arm_id, reward |-> reward, normalized_reward |-> o.normalized_reward,
                       config_id |-> config_id]
    /\ UNCHANGED <<safetyVars, storeVars, pairing, detectorVars, tailVars, configVars, raceVars>>

\* OnlineTuningBandit(num_configs, method)
InitTuning ==
    /\ checks = <<>>
    /\ human_override_active = FALSE
    /\ emergency_mode = FALSE
    /\ violation_history = <<>>
    /\ features = <<>>
    /\ now = 0
    /\ bandit \in {NewTuning(NumArms, method) : method \in TuningMethods}
    /\ pairing = NoPairing
    /\ SCIPY_AVAILABLE = TRUE
    /\ detector = NewDetector(DEFAULT_HAZARD_RATE, DEFAULT_THRESHOLD)
    /\ stream = EmptyStream
    /\ evt = NewEVT(DEFAULT_PERCENTILE, DEFAULT_WINDOW, DEFAULT_MIN_EXCEEDANCES)
    /\ inflight = NoCalls
    /\ config = NewConfigManager
    /\ last = [op |-> "init"]

TuningNext ==
    \/ \E m \in TuningMetrics, freeze \in BOOLEAN, sampled \in 0..(NumArms - 1) :
          SelectConfigCall(m, freeze, sampled)
    \/ \E config_id \in ConfigIds, reward \in FeedbackRewards :
          UpdateFeedbackCall(config_id, reward)

\* the tuning wrapper driven by select_config and update_feedback calls
SpecTuning == InitTuning /\ [][TuningNext]_vars

(***************************************************************************)
(* BOCPDModel (models/anomaly/bocpd.py), with observation_model            *)
(* "gaussian".  Observations, means and variances are in hundredths;       *)
(* beliefs, hazard_rate and threshold in thousandths; densities and the    *)
(* changepoint probability update returns in millionths.  Divisions round  *)
(* down.                                                                   *)
(***************************************************************************)
\* observations of one stream the model follows while scipy is available
MaxSteps == 5
\* observations the sliding window of the fallback mode is filled with
MaxWindowFill == 10
\* updates the model follows on a detector whose window is full
MaxOverrun == 10
\* "if len(self.recent_values) > 100" and "self.recent_values[-100:]"
WINDOW == 100
\* "if len(self.recent_values) < 10" and "self.recent_values[-10:]"
RECENT == 10
\* "likelihoods = np.maximum(likelihoods, 1e-10)": the floor is the smallest
\* positive density the fixed point has
LIKELIHOOD_FLOOR == 1
RECURSIVE DividedBy(_, _, _)
\* pdf / w^k, w in thousandths
DividedBy(pdf, w, k) ==
    IF k = 0 THEN pdf ELSE DividedBy((pdf * 1000) \div w, w, k - 1)

\* pdf / w^((df + 1) / 2), w in thousandths
DividedByHalfPower(pdf, w, df) ==
    IF df % 2 = 1 THEN DividedBy(pdf, w, (df + 1) \div 2)
    ELSE (DividedBy(pdf, w, df \div 2) * 1000) \div ISqrt(w * 1000)

\* the density of Student's t with df degrees of freedom at its centre, at scale
\* 1, in millionths: Gamma((df+1)/2) / (sqrt(df*pi) * Gamma(df/2)), df = 1, 2, ...
TPeakMicro == <<318310, 353553, 367553, 375000, 379607, 382733, 384991, 386699>>

\* stats.t.pdf(observation, df=max(1, n - 1), loc=mean, scale=sqrt(var*(n+1)/n)),
\* floored as line 96 does, in millionths
Likelihood(observation, params) ==
    LET n == params.n
        df == IF n - 1 > 1 THEN n - 1 ELSE 1
        scale2 == (params.var * (n + 1)) \div n
        scale == ISqrt(scale2 * 10000)
        d == observation - params.mean
        z2 == (d * d * 10) \div scale2
        w == 1000 + z2 \div df
        pdf == DividedByHalfPower((TPeakMicro[df] * 1000) \div scale, w, df)
    IN  IF pdf > LIKELIHOOD_FLOOR THEN pdf ELSE LIKELIHOOD_FLOOR

\* a mutant of NewParams: no record is seeded for run length 0
NewParams_NoSeed(observation_params, observation) ==
    [r \in 1..Len(observation_params) |->
        LET params == observation_params[r]
            n == params.n + 1
            mean == params.mean + (observation - params.mean) \div n
            d == observation - params.mean
            var == IF n > 1
                   THEN ((n - 2) * params.var + ((d * d) \div 100) \div n) \div (n - 1)
                   ELSE 100
        IN  [mean |-> mean, var |-> IF var > 10 THEN var ELSE 10, n |-> n]]

\* new_params: the record seeded for run length 0, then every record updated
NewParams(observation_params, observation) ==
    << [mean |-> observation, var |-> 100, n |-> 1] >> \o
    [r \in 1..Len(observation_params) |->
        LET params == observation_params[r]
            n == params.n + 1
            mean == params.mean + (observation - params.mean) \div n
            d == observation - params.mean
            var == IF n > 1
                   THEN ((n - 2) * params.var + ((d * d) \div 100) \div n) \div (n - 1)
                   ELSE 100
        IN  [mean |-> mean, var |-> IF var > 10 THEN var ELSE 10, n |-> n]]

\* BOCPDModel.update with scipy: the detector afterwards and the tuple returned
BayesUpdate(d, observation) ==
    IF d.run_length_dist = NoBelief
    THEN [detector |-> [d EXCEPT !.run_length_dist = <<Unit>>,
                                 !.observation_params =
                                    << [mean |-> observation, var |-> 100, n |-> 1] >>,
                                 !.step = 0],
          changepoint_prob |-> 0, run_length |-> 0]
    ELSE LET n_run_lengths == Len(d.run_length_dist)
             \* run_length_dist * likelihoods, in 1e-9
             mass == [r \in 1..n_run_lengths |->
                         d.run_length_dist[r]
                           * Likelihood(observation, d.observation_params[r])]
             growth_probs == [r \in 1..n_run_lengths |->
                                 (mass[r] \div Unit) * (Unit - d.hazard_rate)]
             changepoint_nano == (Sum(mass) \div Unit) * d.hazard_rate
             changepoint_prob == changepoint_nano \div 1000
             unnormalized == <<changepoint_nano>> \o growth_probs
             new_run_length_dist ==
                 [i \in 1..(n_run_lengths + 1) |->
                     unnormalized[i] \div (Sum(unnormalized) \div Unit)]
         IN  [detector |->
                 [d EXCEPT !.run_length_dist = new_run_length_dist,
                           !.observation_params =
                              NewParams(d.observation_params, observation),
                           !.changepoints =
                              IF changepoint_prob > d.threshold * 1000
                              THEN Append(@, d.step) ELSE @,
                           !.step = @ + 1],
              changepoint_prob |-> changepoint_prob,
              run_length |-> ArgMax(new_run_length_dist)]

\* the last k entries of a list (all of it when it has fewer)
LastOf(s, k) == IF Len(s) <= k THEN s ELSE SubSeq(s, Len(s) - k + 1, Len(s))

\* a mutant of SimpleUpdate: the window is never cut back to its last WINDOW entries
SimpleUpdate_NoTrim(d, observation) ==
    LET appended == Append(d.recent_values, observation)
        recent_values == appended
        n == Len(recent_values)
        s == Sum(recent_values)
        s10 == Sum(LastOf(recent_values, RECENT))
        q == Sum([i \in 1..n |-> recent_values[i] * recent_values[i]])
        \* |recent_mean - overall_mean| is apart / (RECENT * n), overall_std is
        \* sqrt(spread) / n
        apart == IF s10 * n >= RECENT * s THEN s10 * n - RECENT * s
                 ELSE RECENT * s - s10 * n
        spread == n * q - s * s
        z_third == ((apart * 1000) \div (3 * RECENT * ISqrt(spread))) * 1000
    IN  [detector |-> [d EXCEPT !.recent_values = recent_values],
         changepoint_prob |->
            IF n < RECENT THEN 0
            ELSE IF spread > 0 THEN (IF z_third < 990000 THEN z_third ELSE 990000)
            ELSE 0,
         run_length |-> n]

\* BOCPDModel._simple_update: the detector afterwards and the tuple returned
SimpleUpdate(d, observation) ==
    LET appended == Append(d.recent_values, observation)
        recent_values == IF Len(appended) > WINDOW THEN LastOf(appended, WINDOW)
                         ELSE appended
        n == Len(recent_values)
        s == Sum(recent_values)
        s10 == Sum(LastOf(recent_values, RECENT))
        q == Sum([i \in 1..n |-> recent_values[i] * recent_values[i]])
        \* |recent_mean - overall_mean| is apart / (RECENT * n), overall_std is
        \* sqrt(spread) / n
        apart == IF s10 * n >= RECENT * s THEN s10 * n - RECENT * s
                 ELSE RECENT * s - s10 * n
        spread == n * q - s * s
        z_third == ((apart * 1000) \div (3 * RECENT * ISqrt(spread))) * 1000
    IN  [detector |-> [d EXCEPT !.recent_values = recent_values],
         changepoint_prob |->
            IF n < RECENT THEN 0
            ELSE IF spread > 0 THEN (IF z_third < 990000 THEN z_third ELSE 990000)
            ELSE 0,
         run_length |-> n]

\* BOCPDModel.update
UpdateOutcome(scipy, d, observation) ==
    IF ~scipy THEN SimpleUpdate(d, observation) ELSE BayesUpdate(d, observation)

\* BOCPDModel.reset
ResetOutcome(d) ==
    [d EXCEPT !.run_length_dist = NoBelief, !.observation_params = <<>>,
              !.changepoints = <<>>, !.step = 0]

\* round(change_prob, 3): millionths to thousandths, to the nearest, a tie to the
\* even neighbour
Round3(micro) ==
    LET q == micro \div 1000
        r == micro % 1000
    IN  IF r > 500 \/ (r = 500 /\ q % 2 = 1) THEN q + 1 ELSE q

\* the defaults of current_metrics.get in detect_regime_change: p99 in hundredths,
\* error_rate in millionths, window_observations
DEFAULT_P99 == 30000
DEFAULT_ERROR_RATE == 20000
DEFAULT_WINDOW_OBSERVATIONS == 100
\* the cap of the heuristic, 0.99 in millionths
HEURISTIC_CAP == 990000

\* a mutant of RegimeState: the bounds are inclusive
RegimeState_Inclusive(change_prob) ==
    IF change_prob >= 700000 THEN "transitioning"
    ELSE IF change_prob >= 300000 THEN "unstable"
    ELSE "stable"

\* "if change_prob > 0.7 ... elif change_prob > 0.3 ... else", change_prob in
\* millionths
RegimeState(change_prob) ==
    IF change_prob > 700000 THEN "transitioning"
    ELSE IF change_prob > 300000 THEN "unstable"
    ELSE "stable"

\* "freeze_exploration = change_prob > 0.5"
FreezeExploration(change_prob) == change_prob > 500000

\* BOCPDModel.detect_regime_change after "self.update(p99)" left u: the detector,
\* what update returned, the change_prob the regime is decided on (in
\* millionths), and the fields of the result that depend on it
DetectRegimeChangeOutcome(u, current_metrics) ==
    LET p99 == Get(current_metrics, "p99", DEFAULT_P99)
        error_rate == Get(current_metrics, "error_rate", DEFAULT_ERROR_RATE)
        heuristic == u.detector.run_length_dist = NoBelief
        sum == (p99 * 10) + (error_rate * 5)
        change_prob == IF ~heuristic THEN u.changepoint_prob
                       ELSE IF sum > HEURISTIC_CAP THEN HEURISTIC_CAP ELSE sum
        run_length == IF ~heuristic THEN u.run_length
                      ELSE (Get(current_metrics, "window_observations",
                                DEFAULT_WINDOW_OBSERVATIONS) * (1000000 - change_prob))
                              \div 1000000
    IN  [result |-> [action |-> IF FreezeExploration(change_prob)
                                THEN "freeze_unsafe_exploration"
                                ELSE "continue_monitoring",
                     run_length |-> run_length,
                     change_probability |-> Round3(change_prob),
                     regime_state |-> RegimeState(change_prob),
                     freeze_exploration |-> IF FreezeExploration(change_prob)
                                            THEN "yes" ELSE "no",
                     changepoints_detected |-> Len(u.detector.changepoints)],
         detector |-> u.detector,
         update |-> [changepoint_prob |-> u.changepoint_prob, run_length |-> u.run_length],
         change_prob |-> change_prob]

\* the inputs the actions draw from
Hazards == {DEFAULT_HAZARD_RATE, 500, 1000}
\* a detector configured to record: BOCPDModel(hazard_rate=1.0, threshold=0.1)
CERTAIN_HAZARD == 1000
LOW_THRESHOLD == 100
Observations == {0, 1000}
ErrorRates == {60000, 60200, 100000, 100200, 140000, 140200, 200000}
RegimeMetrics ==
    {[p99 |-> o] : o \in Observations}
        \cup {[p99 |-> 0, error_rate |-> e] : e \in ErrorRates}

\* a call of BOCPDModel.update
UpdateDetector(observation) ==
    /\ IF SCIPY_AVAILABLE THEN Len(stream.fed) < MaxSteps
       ELSE IF Len(detector.recent_values) < WINDOW - 1
       THEN Len(detector.recent_values) < MaxWindowFill
       ELSE Len(stream.fed) < WINDOW + MaxOverrun
    /\ LET o == UpdateOutcome(SCIPY_AVAILABLE, detector, observation)
       IN  /\ detector' = o.detector
           /\ stream' = [fed |-> Append(stream.fed, observation),
                         returned |-> Append(stream.returned,
                                             [changepoint_prob |-> o.changepoint_prob,
                                              run_length |-> o.run_length])]
           /\ last' = [op |-> "update", changepoint_prob |-> o.changepoint_prob,
                       run_length |-> o.run_length,
                       observation |-> observation]
    /\ UNCHANGED <<safetyVars, storeVars, banditVars, SCIPY_AVAILABLE, tailVars, configVars, raceVars>>

\* a call of BOCPDModel.detect_regime_change
DetectRegimeChange(current_metrics) ==
    /\ Len(stream.fed) < MaxSteps
    /\ Len(detector.recent_values) < MaxWindowFill
    /\ \E u \in {UpdateOutcome(SCIPY_AVAILABLE, detector,
                                Get(current_metrics, "p99", DEFAULT_P99))} :
       LET o == DetectRegimeChangeOutcome(u, current_metrics)
       IN  /\ detector' = o.detector
           /\ stream' = [fed |-> Append(stream.fed, current_metrics.p99),
                         returned |-> Append(stream.returned, o.update)]
           /\ last' = [result |-> o.result, op |-> "detect_regime_change",
                       change_prob |-> o.change_prob]
    /\ UNCHANGED <<safetyVars, storeVars, banditVars, SCIPY_AVAILABLE, tailVars, configVars, raceVars>>

\* a call of BOCPDModel.reset
ResetDetector ==
    /\ detector' = ResetOutcome(detector)
    /\ stream' = EmptyStream
    /\ last' = [op |-> "reset"]
    /\ UNCHANGED <<safetyVars, storeVars, banditVars, SCIPY_AVAILABLE, tailVars, configVars, raceVars>>

\* import of bocpd.py with or without scipy, then BOCPDModel(hazard_rate); the
\* fallback mode never reads hazard_rate and is followed with the default only
InitDetector ==
    /\ checks = <<>>
    /\ human_override_active = FALSE
    /\ emergency_mode = FALSE
    /\ violation_history = <<>>
    /\ features = <<>>
    /\ now = 0
    /\ bandit = NewTuning(NumArms, "thompson_sampling")
    /\ pairing = NoPairing
    /\ SCIPY_AVAILABLE \in BOOLEAN
    /\ detector \in {NewDetector(h, DEFAULT_THRESHOLD) :
                        h \in IF SCIPY_AVAILABLE THEN Hazards ELSE {DEFAULT_HAZARD_RATE}}
                     \cup (IF SCIPY_AVAILABLE
                           THEN {NewDetector(CERTAIN_HAZARD, LOW_THRESHOLD)} ELSE {})
    /\ stream = EmptyStream
    /\ evt = NewEVT(DEFAULT_PERCENTILE, DEFAULT_WINDOW, DEFAULT_MIN_EXCEEDANCES)
    /\ inflight = NoCalls
    /\ config = NewConfigManager
    /\ last = [op |-> "init"]

DetectorNext ==
    \/ \E observation \in Observations : UpdateDetector(observation)
    \/ \E current_metrics \in RegimeMetrics : DetectRegimeChange(current_metrics)
    \/ ResetDetector

\* the changepoint detector driven by observations and resets
SpecDetector == InitDetector /\ [][DetectorNext]_vars

\* a detector without scipy after WINDOW - 1 calls of update(0.0): every call
\* returned (0.0, n), the first RECENT - 1 for lack of observations and the
\* others because the standard deviation is 0
AlmostFull ==
    [detector |-> [NewDetector(DEFAULT_HAZARD_RATE, DEFAULT_THRESHOLD)
                      EXCEPT !.recent_values = [i \in 1..(WINDOW - 1) |-> 0]],
     stream |-> [fed |-> [i \in 1..(WINDOW - 1) |-> 0],
                 returned |-> [i \in 1..(WINDOW - 1) |->
                                  [changepoint_prob |-> 0, run_length |-> i]]]]

\* import of bocpd.py without scipy, then BOCPDModel(), fresh or with its
\* window one short of full
InitWindow ==
    /\ checks = <<>>
    /\ human_override_active = FALSE
    /\ emergency_mode = FALSE
    /\ violation_history = <<>>
    /\ features = <<>>
    /\ now = 0
    /\ bandit = NewTuning(NumArms, "thompson_sampling")
    /\ pairing = NoPairing
    /\ SCIPY_AVAILABLE = FALSE
    /\ \/ /\ detector = NewDetector(DEFAULT_HAZARD_RATE, DEFAULT_THRESHOLD)
          /\ stream = EmptyStream
       \/ /\ detector = AlmostFull.detector
          /\ stream = AlmostFull.stream
    /\ evt = NewEVT(DEFAULT_PERCENTILE, DEFAULT_WINDOW, DEFAULT_MIN_EXCEEDANCES)
    /\ inflight = NoCalls
    /\ config = NewConfigManager
    /\ last = [op |-> "init"]

WindowNext == \E observation \in Observations : UpdateDetector(observation)

\* the fallback detector driven by observations alone, so that stream.fed holds
\* every observation since construction
SpecWindow == InitWindow /\ [][WindowNext]_vars

(***************************************************************************)
(* EVTModel (models/tail_control/evt_pot.py).  Data values, thresholds and *)
(* the GPD scale and shape are in hundredths, probabilities and confidence *)
(* levels in thousandths.  stats.genpareto.fit is not computed: a fit that *)
(* runs may come back with any of the parameter pairs of FitResults.       *)
(***************************************************************************)
\* observations in the data array given to fit
MaxData == 2

RECURSIVE Insert(_, _)
\* x put into the ascending list s
Insert(x, s) ==
    IF s = <<>> THEN <<x>>
    ELSE IF x <= Head(s) THEN <<x>> \o s ELSE <<Head(s)>> \o Insert(x, Tail(s))

RECURSIVE Sorted(_)
\* the list s in ascending order
Sorted(s) == IF s = <<>> THEN <<>> ELSE Insert(Head(s), Sorted(Tail(s)))

\* np.percentile(data, q): linear interpolation between the order statistics
\* around position q/100 * (n - 1)
Percentile(data, q) ==
    LET a == Sorted(data)
        pos == q * (Len(data) - 1)
        lo == pos \div 100
        frac == pos % 100
    IN  IF frac = 0 THEN a[lo + 1]
        ELSE a[lo + 1] + (frac * (a[lo + 2] - a[lo + 1])) \div 100

RECURSIVE Exceedances(_, _)
\* data[data > threshold] - threshold
Exceedances(data, threshold) ==
    IF data = <<>> THEN <<>>
    ELSE (IF Head(data) > threshold THEN <<Head(data) - threshold>> ELSE <<>>)
         \o Exceedances(Tail(data), threshold)

RECURSIVE DeclusterFrom(_, _, _, _)
\* the while loop of _decluster from index i (0-based) on
DeclusterFrom(exceedances, i, declustering_window, declustered) ==
    IF i >= Len(exceedances) THEN declustered
    ELSE LET window_end == IF i + declustering_window < Len(exceedances)
                           THEN i + declustering_window ELSE Len(exceedances)
             window == SubSeq(exceedances, i + 1, window_end)
             max_idx == i + ArgMax(window)
         IN  DeclusterFrom(exceedances, max_idx + declustering_window,
                           declustering_window,
                           Append(declustered, exceedances[max_idx + 1]))

\* EVTModel._decluster
Decluster(exceedances, declustering_window) ==
    DeclusterFrom(exceedances, 0, declustering_window, <<>>)

\* a mutant of FitOutcome: too few exceedances leave the fitted flag as it was
FitOutcome_KeepsFlag(m, scipy, data, auto_threshold, threshold, fit_result) ==
    IF ~scipy
    THEN [raised |-> FALSE, model |-> [m EXCEPT !.fitted = FALSE], declustered |-> None]
    ELSE LET th == IF auto_threshold THEN Percentile(data, m.threshold_percentile)
                   ELSE threshold
             m1 == [m EXCEPT !.threshold = th]
             n == Len(Decluster(Exceedances(data, th), m.declustering_window))
         IN  IF th = None
             THEN [raised |-> TRUE, model |-> m1, declustered |-> None]
             ELSE IF n < m.min_exceedances
             THEN [raised |-> FALSE, model |-> m1, declustered |-> n]
             ELSE [raised |-> FALSE,
                   model |-> [m1 EXCEPT !.gpd_shape = fit_result.shape,
                                        !.gpd_scale = fit_result.scale,
                                        !.fitted = TRUE], declustered |-> n]

\* EVTModel.fit: the model afterwards, whether the call raised ("data > None" is
\* a TypeError) and the number of declustered exceedances it found
FitOutcome(m, scipy, data, auto_threshold, threshold, fit_result) ==
    IF ~scipy
    THEN [raised |-> FALSE, model |-> [m EXCEPT !.fitted = FALSE], declustered |-> None]
    ELSE LET th == IF auto_threshold THEN Percentile(data, m.threshold_percentile)
                   ELSE threshold
             m1 == [m EXCEPT !.threshold = th]
             n == Len(Decluster(Exceedances(data, th), m.declustering_window))
         IN  IF th = None
             THEN [raised |-> TRUE, model |-> m1, declustered |-> None]
             ELSE IF n < m.min_exceedances
             THEN [raised |-> FALSE,
                   model |-> [m1 EXCEPT !.fitted = FALSE], declustered |-> n]
             ELSE [raised |-> FALSE,
                   model |-> [m1 EXCEPT !.gpd_shape = fit_result.shape,
                                        !.gpd_scale = fit_result.scale,
                                        !.fitted = TRUE], declustered |-> n]

\* stats.genpareto.sf(excess, shape, loc=0, scale=scale) for excess > 0:
\* (1 + shape * excess / scale) ^ (-1 / shape), for the shapes 1 and -1
GpdSf(excess, shape, scale) ==
    IF shape = 100 THEN (1000 * scale) \div (scale + excess)
    ELSE IF excess >= scale THEN 0 ELSE (1000 * (scale - excess)) \div scale

\* stats.genpareto.ppf(confidence, shape, loc=0, scale=scale):
\* scale / shape * ((1 - confidence) ^ (-shape) - 1), for the shapes 1 and -1
GpdPpf(confidence, shape, scale) ==
    IF shape = 100 THEN (scale * confidence) \div (1000 - confidence)
    ELSE (scale * confidence) \div 1000

\* EVTModel.predict_extreme_probability: what it returns, or that it raised
\* (a fitted model whose threshold is None compares a number with None)
PredictOutcome(m, value) ==
    IF ~m.fitted THEN [result |-> 0, raised |-> FALSE]
    ELSE IF m.threshold = None THEN [result |-> None, raised |-> TRUE]
    ELSE IF value <= m.threshold THEN [result |-> 0, raised |-> FALSE]
    ELSE [result |-> GpdSf(value - m.threshold, m.gpd_shape, m.gpd_scale),
          raised |-> FALSE]

\* a mutant of ReturnPeriod: the quotient is returned as it is
ReturnPeriod_Unclamped(n_exceedances, window_size) ==
    IF n_exceedances = 0 THEN window_size * 10 ELSE window_size \div n_exceedances

\* EVTModel.calculate_return_period
ReturnPeriod(n_exceedances, window_size) ==
    IF n_exceedances = 0 THEN window_size * 10
    ELSE IF window_size \div n_exceedances > 1 THEN window_size \div n_exceedances
    ELSE 1

\* EVTModel.estimate_var_cvar: the tuple it returns, or that it raised (a fitted
\* model whose threshold is None adds a number to None)
VarCvarOutcome(m, confidence) ==
    IF ~m.fitted THEN [result |-> <<0, 0>>, raised |-> FALSE]
    ELSE IF m.threshold = None THEN [result |-> <<>>, raised |-> TRUE]
    ELSE LET var == m.threshold + GpdPpf(confidence, m.gpd_shape, m.gpd_scale)
             cvar == IF m.gpd_shape < 100 THEN (var * 100) \div (100 - m.gpd_shape)
                     ELSE (var * 3) \div 2
         IN  [result |-> <<var, cvar>>, raised |-> FALSE]

\* the inputs the actions draw from
DataValues == {0, 100, 200}
DataArrays == UNION {[1..n -> DataValues] : n \in 1..MaxData}
ManualThresholds == {None, 0, 100}
\* (auto_threshold, threshold): the threshold argument is read only when
\* auto_threshold is False
ThresholdArgs == {<<TRUE, None>>} \cup {<<FALSE, t>> : t \in ManualThresholds}
FitResults == {[shape |-> 100, scale |-> 50], [shape |-> -100, scale |-> 100]}
TailValues == {0, 100, 150, 300}
Confidences == {500, 990}
ExceedanceCounts == {0, 1, 3, 10}
WindowSizes == {1, 10, 1000}
Percentiles == {50, DEFAULT_PERCENTILE}
DeclusterWindows == {1, 2}
MinExceedances == {1, 2}

\* a call of EVTModel.fit
Fit(data, auto_threshold, threshold, fit_result) ==
    /\ LET o == FitOutcome(evt, SCIPY_AVAILABLE, data, auto_threshold, threshold,
                           fit_result)
       IN  /\ evt' = o.model
           /\ last' = [op |-> "fit", raised |-> o.raised,
                       declustered |-> o.declustered, auto_threshold |-> auto_threshold]
    /\ UNCHANGED <<safetyVars, storeVars, banditVars, detectorVars, configVars, raceVars>>

\* a call of EVTModel.predict_extreme_probability
PredictExtremeProbability(value) ==
    /\ LET o == PredictOutcome(evt, value)
       IN  last' = [result |-> o.result, op |-> "predict_extreme_probability",
                    value |-> value, raised |-> o.raised]
    /\ UNCHANGED <<safetyVars, storeVars, banditVars, detectorVars, tailVars, configVars, raceVars>>

\* a call of EVTModel.calculate_return_period
CalculateReturnPeriod(n_exceedances, window_size) ==
    /\ last' = [result |-> ReturnPeriod(n_exceedances, window_size), op |-> "calculate_return_period",
                n_exceedances |-> n_exceedances,
                window_size |-> window_size]
    /\ UNCHANGED <<safetyVars, storeVars, banditVars, detectorVars, tailVars, configVars, raceVars>>

\* a call of EVTModel.estimate_var_cvar
EstimateVarCvar(confidence) ==
    /\ LET o == VarCvarOutcome(evt, confidence)
       IN  last' = [result |-> o.result, op |-> "estimate_var_cvar",
                    raised |-> o.raised, confidence |-> confidence]
    /\ UNCHANGED <<safetyVars, storeVars, banditVars, detectorVars, tailVars, configVars, raceVars>>

\* import of evt_pot.py with or without scipy, then EVTModel(...)
InitTail ==
    /\ checks = <<>>
    /\ human_override_active = FALSE
    /\ emergency_mode = FALSE
    /\ violation_history = <<>>
    /\ features = <<>>
    /\ now = 0
    /\ bandit = NewTuning(NumArms, "thompson_sampling")
    /\ pairing = NoPairing
    /\ SCIPY_AVAILABLE \in BOOLEAN
    /\ detector = NewDetector(DEFAULT_HAZARD_RATE, DEFAULT_THRESHOLD)
    /\ stream = EmptyStream
    /\ evt \in {NewEVT(p, w, k) :
                   p \in Percentiles, w \in DeclusterWindows, k \in MinExceedances}
    /\ inflight = NoCalls
    /\ config = NewConfigManager
    /\ last = [op |-> "init"]

TailNext ==
    \/ \E data \in DataArrays, args \in ThresholdArgs, fit_result \in FitResults :
          Fit(data, args[1], args[2], fit_result)
    \/ \E value \in TailValues : PredictExtremeProbability(value)
    \/ \E n_exceedances \in ExceedanceCounts, window_size \in WindowSizes :
          CalculateReturnPeriod(n_exceedances, window_size)
    \/ \E confidence \in Confidences : EstimateVarCvar(confidence)

\* the tail-risk estimator driven by fits and queries
SpecTail == InitTail /\ [][TailNext]_vars

\* exceedances handed to _decluster: their number and their values
MaxCluster == 4
ClusterValues == {100, 200, 300}
ExceedanceArrays == UNION {[1..n -> ClusterValues] : n \in 0..MaxCluster}

\* a call of EVTModel._decluster
DeclusterCall(exceedances) ==
    /\ last' = [result |-> Decluster(exceedances, evt.declustering_window), op |-> "decluster",
                exceedances |-> exceedances]
    /\ UNCHANGED <<safetyVars, storeVars, banditVars, detectorVars, tailVars, configVars, raceVars>>

DeclusterNext == \E exceedances \in ExceedanceArrays : DeclusterCall(exceedances)

\* the declustering scan applied to exceedance sequences
SpecDecluster == InitTail /\ [][DeclusterNext]_vars

(***************************************************************************)
(* ConfigManager (config/config_manager.py): versions, their statuses and  *)
(* the active version.  The configuration data plays no part in the status *)
(* changes; a call of create_version either passes the schema of its type  *)
(* or fails on it.                                                         *)
(***************************************************************************)
\* versions the model creates
MaxVersions == 2

\* ConfigManager._get_version: the position of the version, None when not found
GetVersion(c, version_id) ==
    IF version_id \in 1..Len(c.versions) THEN version_id ELSE None

\* ConfigManager.create_version: [raised, config]
CreateVersionOutcome(c, schema_errors) ==
    IF schema_errors THEN [raised |-> TRUE, config |-> c]
    ELSE [raised |-> FALSE,
          config |-> [c EXCEPT !.versions = Append(@, ConfigVersion)]]

\* ConfigManager.validate_version: [raised, config]; validation_passed is always
\* True, so the status goes through VALIDATING to APPROVED
ValidateVersionOutcome(c, version_id) ==
    LET version == GetVersion(c, version_id)
    IN  IF version = None THEN [raised |-> TRUE, config |-> c]
        ELSE [raised |-> FALSE,
              config |-> [c EXCEPT !.versions[version].status = "approved",
                                   !.versions[version].reached_approved = TRUE]]

\* ConfigManager.deploy_version: [raised, config]
DeployVersionOutcome(c, version_id) ==
    LET version == GetVersion(c, version_id)
    IN  IF version = None THEN [raised |-> TRUE, config |-> c]
        ELSE IF c.versions[version].status # "approved" THEN [raised |-> TRUE, config |-> c]
        ELSE LET deploying == [c.versions EXCEPT ![version].status = "deploying"]
                 deprecated == IF c.active_version # None
                               THEN [deploying EXCEPT ![c.active_version].status = "deprecated"]
                               ELSE deploying
             IN  [raised |-> FALSE,
                  config |-> [versions |-> [deprecated EXCEPT ![version].status = "active"],
                              active_version |-> version]]

\* the target of a rollback without a named version: the last version that is
\* ACTIVE or DEPRECATED and is not the active one, None when there is none
LastActiveBefore(c) ==
    LET active_versions == {i \in 1..Len(c.versions) :
                               /\ c.versions[i].status \in {"active", "deprecated"}
                               /\ i # c.active_version}
    IN  IF active_versions = {} THEN None
        ELSE CHOOSE i \in active_versions : \A j \in active_versions : j <= i

\* ConfigManager.rollback: [raised, config]; target_version_id None stands for
\* a call without a target
RollbackOutcome(c, target_version_id) ==
    IF c.active_version = None THEN [raised |-> TRUE, config |-> c]
    ELSE LET target == IF target_version_id # None THEN GetVersion(c, target_version_id)
                       ELSE LastActiveBefore(c)
         IN  IF target = None THEN [raised |-> TRUE, config |-> c]
             ELSE LET rolled_back == [c.versions EXCEPT ![c.active_version].status = "rolled_back"]
                  IN  [raised |-> FALSE,
                       config |-> [versions |-> [rolled_back EXCEPT ![target].status = "active"],
                                   active_version |-> target]]

\* ConfigManager.create_version
CreateVersion(schema_errors) ==
    /\ Len(config.versions) < MaxVersions
    /\ LET o == CreateVersionOutcome(config, schema_errors)
       IN  /\ config' = o.config
           /\ last' = [op |-> "create_version", raised |-> o.raised, version_id |-> None]
    /\ UNCHANGED <<safetyVars, storeVars, banditVars, detectorVars, tailVars, raceVars>>

\* ConfigManager.validate_version
ValidateVersion(version_id) ==
    /\ LET o == ValidateVersionOutcome(config, version_id)
       IN  /\ config' = o.config
           /\ last' = [op |-> "validate_version", raised |-> o.raised,
                       version_id |-> version_id]
    /\ UNCHANGED <<safetyVars, storeVars, banditVars, detectorVars, tailVars, raceVars>>

\* ConfigManager.deploy_version
DeployVersion(version_id) ==
    /\ LET o == DeployVersionOutcome(config, version_id)
       IN  /\ config' = o.config
           /\ last' = [op |-> "deploy_version", raised |-> o.raised,
                       version_id |-> version_id]
    /\ UNCHANGED <<safetyVars, storeVars, banditVars, detectorVars, tailVars, raceVars>>

\* ConfigManager.rollback
Rollback(target_version_id) ==
    /\ LET o == RollbackOutcome(config, target_version_id)
       IN  /\ config' = o.config
           /\ last' = [op |-> "rollback", raised |-> o.raised,
                       version_id |-> target_version_id]
    /\ UNCHANGED <<safetyVars, storeVars, banditVars, detectorVars, tailVars, raceVars>>

\* the version ids handed to the calls: the versions created and one that is not
VersionIds == 1..(MaxVersions + 1)

ConfigNext ==
    \/ \E schema_errors \in BOOLEAN : CreateVersion(schema_errors)
    \/ \E version_id \in VersionIds : ValidateVersion(version_id)
    \/ \E version_id \in VersionIds : DeployVersion(version_id)
    \/ \E target_version_id \in VersionIds \cup {None} : Rollback(target_version_id)

\* the configuration manager driven by its four operations
SpecConfig == Init /\ [][ConfigNext]_vars

(***************************************************************************)
(* The safety controller with checks that callers switch off: SafetyCheck  *)
(* is a dataclass whose field enabled (True at registration) is assigned   *)
(* from outside, and validate skips a check whose field is False.          *)
(***************************************************************************)
\* check.enabled = enabled, for the i-th check registered for the model type
SetEnabled(mt, i, enabled) ==
    /\ mt \in DOMAIN checks
    /\ i \in 1..Len(checks[mt])
    /\ checks' = [checks EXCEPT ![mt][i].enabled = enabled]
    /\ last' = [op |-> "set_enabled"]
    /\ UNCHANGED <<human_override_active, emergency_mode, violation_history, storeVars, banditVars, detectorVars, tailVars, configVars, raceVars>>

ChecksNext ==
    \/ \E mt \in RegTypes, fn \in RegChecks, sev \in Severities :
          RegisterCheck(mt, fn, fn, sev, "description")
    \/ \E mt \in RegTypes, i \in 1..MaxChecks, enabled \in BOOLEAN :
          SetEnabled(mt, i, enabled)
    \/ \E mt \in ValTypes, out \in SafetyOutputs, ctx \in SafetyContexts :
          Validate(mt, out, ctx)

\* the safety controller, both switches off, driven by registrations, validations
\* and callers enabling and disabling checks
SpecChecks == Init /\ [][ChecksNext]_vars

(***************************************************************************)
(* FeatureStore under concurrent callers.  The store has no lock, so the   *)
(* statements of get_feature and of invalidate_cache that threads run on   *)
(* the same Feature object interleave.  One action is one statement (or a  *)
(* run of statements that touch only locals).  The shared feature has a    *)
(* compute function and no dependencies.  inflight holds each thread's     *)
(* position and locals, and as bookkeeping: the number of the call that    *)
(* wrote each of the two cache fields (0 for invalidate_cache and for the  *)
(* constructor), for each thread inside invalidate_cache the threads that  *)
(* had computed their value before it entered, and the threads whose value *)
(* was computed before an invalidate_cache call that has since returned.   *)
(***************************************************************************)
MaxCalls == 3
SharedFeature == "B"

\* the threads that hold a computed value they have not yet stamped
Computed == {t \in Threads : inflight.pc[t] \in {"store_value", "store_time"}}

\* get_feature up to the cache check: a hit returns feature.cached_value, a miss
\* goes on to the compute branch
GetFeatureEnter(t, ctx) ==
    /\ inflight.pc[t] = "idle"
    /\ inflight.calls < MaxCalls
    /\ SharedFeature \in DOMAIN features
    /\ IF IsCacheValid(features[SharedFeature])
       THEN /\ inflight' = [inflight EXCEPT !.calls = @ + 1]
            /\ last' = [op |-> "get_feature", value |-> features[SharedFeature].cached_value, thread |-> t,
                        hit |-> TRUE, stale |-> FALSE]
       ELSE /\ features[SharedFeature].compute_fn # "no_fn"
            /\ inflight' = [inflight EXCEPT !.calls = @ + 1, !.pc[t] = "compute",
                                            !.context[t] = ctx,
                                            !.computation[t] = inflight.calls + 1]
            /\ UNCHANGED last
    /\ UNCHANGED <<safetyVars, storeVars, banditVars, detectorVars, tailVars, configVars>>

\* "value = feature.compute_fn(context, dep_values)"
GetFeatureCompute(t) ==
    /\ inflight.pc[t] = "compute"
    /\ LET c == Compute(features[SharedFeature].compute_fn, inflight.context[t], <<>>)
       IN  /\ ~c.raised
           /\ inflight' = [inflight EXCEPT !.pc[t] = "store_value", !.value[t] = c.value]
    /\ UNCHANGED <<safetyVars, storeVars, banditVars, detectorVars, tailVars, configVars, last>>

\* "feature.cached_value = value"
GetFeatureStoreValue(t) ==
    /\ inflight.pc[t] = "store_value"
    /\ features' = [features EXCEPT ![SharedFeature].cached_value = inflight.value[t]]
    /\ inflight' = [inflight EXCEPT !.pc[t] = "store_time",
                                    !.value_by = inflight.computation[t]]
    /\ UNCHANGED <<safetyVars, now, banditVars, detectorVars, tailVars, configVars, last>>

\* "feature.last_updated = datetime.now()" and the return; last.stale tells
\* whether the entry now stamped holds this call's value although an
\* invalidate_cache call entered after the value was computed and has returned
GetFeatureStoreTime(t) ==
    /\ inflight.pc[t] = "store_time"
    /\ features' = [features EXCEPT ![SharedFeature].last_updated = now]
    /\ inflight' = [inflight EXCEPT
                       !.pc[t] = "idle", !.context[t] = None, !.value[t] = None,
                       !.computation[t] = 0,
                       !.time_by = inflight.computation[t],
                       !.overtaken = @ \ {t},
                       !.computed_before = [u \in Threads |-> @[u] \ {t}]]
    /\ last' = [op |-> "get_feature", value |-> inflight.value[t], thread |-> t,
                hit |-> FALSE,
                stale |-> /\ t \in inflight.overtaken
                          /\ inflight.value_by = inflight.computation[t]]
    /\ UNCHANGED <<safetyVars, now, banditVars, detectorVars, tailVars, configVars>>

\* invalidate_cache(feature_name) up to "cached_value = None"
InvalidateCacheEnter(t) ==
    /\ inflight.pc[t] = "idle"
    /\ inflight.calls < MaxCalls
    /\ SharedFeature \in DOMAIN features
    /\ features' = [features EXCEPT ![SharedFeature].cached_value = None]
    /\ inflight' = [inflight EXCEPT !.calls = @ + 1, !.pc[t] = "clear_time",
                                    !.value_by = 0,
                                    !.computed_before[t] = Computed]
    /\ UNCHANGED <<safetyVars, now, banditVars, detectorVars, tailVars, configVars, last>>

\* "last_updated = None" and the return
InvalidateCacheLeave(t) ==
    /\ inflight.pc[t] = "clear_time"
    /\ features' = [features EXCEPT ![SharedFeature].last_updated = None]
    /\ inflight' = [inflight EXCEPT !.pc[t] = "idle", !.time_by = 0,
                                    !.overtaken = @ \cup inflight.computed_before[t],
                                    !.computed_before[t] = {}]
    /\ last' = [op |-> "invalidate_cache", thread |-> t]
    /\ UNCHANGED <<safetyVars, now, banditVars, detectorVars, tailVars, configVars>>

\* the store after register_feature(SharedFeature, compute_fn), no thread inside
InitRace ==
    /\ checks = <<>>
    /\ human_override_active = FALSE
    /\ emergency_mode = FALSE
    /\ violation_history = <<>>
    /\ features = Registered(<<>>, SharedFeature, "derive", <<>>)
    /\ now = 0
    /\ bandit = NewTuning(NumArms, "thompson_sampling")
    /\ pairing = NoPairing
    /\ SCIPY_AVAILABLE = TRUE
    /\ detector = NewDetector(DEFAULT_HAZARD_RATE, DEFAULT_THRESHOLD)
    /\ stream = EmptyStream
    /\ evt = NewEVT(DEFAULT_PERCENTILE, DEFAULT_WINDOW, DEFAULT_MIN_EXCEEDANCES)
    /\ inflight = NoCalls
    /\ config = NewConfigManager
    /\ last = [op |-> "init"]

RaceNext ==
    \/ \E t \in Threads, ctx \in Contexts : GetFeatureEnter(t, ctx)
    \/ \E t \in Threads : GetFeatureCompute(t)
    \/ \E t \in Threads : GetFeatureStoreValue(t)
    \/ \E t \in Threads : GetFeatureStoreTime(t)
    \/ \E t \in Threads : InvalidateCacheEnter(t)
    \/ \E t \in Threads : InvalidateCacheLeave(t)
    \/ Tick

SpecRace == InitRace /\ [][RaceNext]_vars

(***************************************************************************)
(* Properties of the safety controller.                                    *)
(***************************************************************************)
\* the checks registered for the model type of the last validate call
LastChecks == Get(checks, last.model_type, <<>>)
\* how the predicate of a check answers the arguments of the last validate call
LastOutcome(check) == CallCheck(check.check_fn, last.output, last.context)
SwitchesOff == ~emergency_mode /\ ~human_override_active

\* C1: with emergency mode enabled, validate returns is_safe=false, severity
\* critical and violations exactly ["emergency_mode_active"], invoking no check
\* predicate, whether or not human override is enabled too.
C1_EmergencyRejects ==
    (last.op = "validate" /\ emergency_mode) =>
        /\ last.result.is_safe = FALSE
        /\ last.result.safety_level = "critical"
        /\ last.result.violations = << <<"emergency_mode_active">> >>
        /\ last.invoked = <<>>

\* C1 witness: a validate call under emergency mode and human override, for a
\* model type that has a registered check.
C1_Witness ==
    /\ last.op = "validate"
    /\ emergency_mode
    /\ human_override_active
    /\ Len(LastChecks) > 0

\* C2: with human override enabled and emergency mode disabled, validate returns
\* is_safe=true, severity safe, no violations and the override warning, invoking
\* no check predicate.
C2_OverrideAccepts ==
    (last.op = "validate" /\ human_override_active /\ ~emergency_mode) =>
        /\ last.result.is_safe = TRUE
        /\ last.result.safety_level = "safe"
        /\ last.result.violations = <<>>
        /\ last.result.warnings = << <<"human_override_active">> >>
        /\ last.invoked = <<>>

\* C2 witness: a validate call under override alone, with a registered check
\* that would throw and one that would fail on these arguments.
C2_Witness ==
    /\ last.op = "validate"
    /\ human_override_active
    /\ ~emergency_mode
    /\ \E i \in 1..Len(LastChecks) : LastOutcome(LastChecks[i]) = "raise"
    /\ \E i \in 1..Len(LastChecks) :
          LastOutcome(LastChecks[i]) = "fail" /\ LastChecks[i].severity = "critical"

\* C3: with both switches off, if the predicate of an enabled check throws,
\* validate still returns a result, that result has is_safe=false, and the check
\* is among the violations, whatever its registered severity.
C3_FailClosed ==
    (last.op = "validate" /\ SwitchesOff) =>
        \A i \in 1..Len(LastChecks) :
            (LastChecks[i].enabled /\ LastOutcome(LastChecks[i]) = "raise") =>
                /\ last.result.is_safe = FALSE
                /\ \E j \in 1..Len(last.result.violations) :
                      last.result.violations[j] = Msg(LastChecks[i].name, "check_error")

\* C3 witness: a validate call with both switches off where a check registered
\* with severity warning throws and another check passes.
C3_Witness ==
    /\ last.op = "validate"
    /\ SwitchesOff
    /\ \E i \in 1..Len(LastChecks) :
          LastOutcome(LastChecks[i]) = "raise" /\ LastChecks[i].severity = "warning"
    /\ \E i \in 1..Len(LastChecks) : LastOutcome(LastChecks[i]) = "pass"

\* C4: whenever an endpoint's validation reports is_safe=false, the data it
\* returns is the fallback output of its decision type.
C4_UnsafeReplacedByFallback ==
    (last.op = "endpoint" /\ ~last.safety_check.is_safe) =>
        last.data = Fallback(last.endpoint)

\* C5: a validate call whose result has a violation appends exactly one entry
\* (decision type, violations, raw output) to the violation history, and a call
\* without violations appends nothing, on every path of validate.
C5_ViolationsRecorded ==
    [][last'.op = "validate" =>
          violation_history' =
             IF last'.result.violations # <<>>
             THEN Append(violation_history,
                         [violations |-> last'.result.violations,
                          model_type |-> last'.model_type,
                          output |-> last'.output])
             ELSE violation_history]_vars

\* C6: once an enabled check of severity critical has failed, the safety_level
\* of the result is critical, whatever the later checks do.
C6_CriticalSticky ==
    (last.op = "validate" /\ SwitchesOff) =>
        ((\E i \in 1..Len(LastChecks) :
             /\ LastChecks[i].enabled
             /\ LastChecks[i].severity = "critical"
             /\ LastOutcome(LastChecks[i]) = "fail")
         => last.result.safety_level = "critical")

\* the messages of the checks of chs, in order, that satisfy Test
Messages(chs, Test(_)) ==
    LET s == SelectSeq(chs, Test)
    IN  [i \in 1..Len(s) |->
            Msg(s[i].name,
                IF LastOutcome(s[i]) = "raise" THEN "check_error" ELSE s[i].description)]
C7_IsWarning(c) == c.enabled /\ c.severity = "warning" /\ LastOutcome(c) = "fail"
C7_IsViolation(c) ==
    /\ c.enabled
    /\ \/ LastOutcome(c) = "raise"
       \/ LastOutcome(c) = "fail" /\ c.severity \in {"unsafe", "critical"}

\* C7: with both switches off, is_safe is true exactly when violations is empty;
\* the warnings are the failed warning-severity checks, the violations are the
\* failed unsafe or critical checks and the throwing checks, and nothing else.
C7_SafeIffNoViolations ==
    (last.op = "validate" /\ SwitchesOff) =>
        /\ last.result.is_safe = (last.result.violations = <<>>)
        /\ last.result.warnings = Messages(LastChecks, C7_IsWarning)
        /\ last.result.violations = Messages(LastChecks, C7_IsViolation)

\* C7 witness: a validate call with both switches off in which a warning-severity
\* check failed, nothing was filed as a violation, and the result is safe.
C7_Witness ==
    /\ last.op = "validate"
    /\ SwitchesOff
    /\ \E i \in 1..Len(LastChecks) : C7_IsWarning(LastChecks[i])
    /\ Len(last.result.warnings) = 1
    /\ last.result.is_safe

(***************************************************************************)
(* Properties of the feature store.                                        *)
(***************************************************************************)
\* a step that is a call of get_feature: the call went to a feature whose cache
\* entry, as the previous call of get_feature for the same name left it, is
\* younger than its TTL
C8_SecondCallInWindow ==
    /\ last.op = "get_feature"
    /\ last.ok
    /\ last'.op = "get_feature"
    /\ last'.name = last.name
    /\ now' = now
    /\ features[last.name].last_updated # None
    /\ now - features[last.name].last_updated < features[last.name].ttl_seconds

\* C8 as stated: the second of two get calls inside the TTL window, for a feature
\* registered with a dependency, returns the value the first returned and invokes
\* no compute function.
C8_SecondCallCached ==
    [][(C8_SecondCallInWindow /\ Len(features[last.name].dependencies) > 0) =>
          /\ last'.ok
          /\ last'.value = last.value
          /\ last'.invoked = <<>>]_vars

\* C8 amended: the same, when the first call returned a non-null value.
C8_SecondCallCachedNonNull ==
    [][(C8_SecondCallInWindow /\ last.value # None) =>
          /\ last'.ok
          /\ last'.value = last.value
          /\ last'.invoked = <<>>
          /\ features' = features]_vars

\* C8 witness: get of a feature with a registered dependency, served from a cache
\* entry computed at an earlier time, with the dependency's own entry expired.
C8_Witness ==
    /\ last.op = "get_feature"
    /\ last.ok
    /\ last.invoked = <<>>
    /\ last.name \in DOMAIN features
    /\ features[last.name].dependencies = <<"B">>
    /\ "B" \in DOMAIN features
    /\ last.value = features[last.name].cached_value
    /\ last.value # None
    /\ now > features[last.name].last_updated
    /\ ~IsCacheValid(features["B"])

\* C9: get fails with the unknown-feature error when the name is not registered
\* and when resolution reaches an unregistered dependency; then the requested
\* feature's compute function is not invoked and its cache entry is unchanged.
C9_UnknownFeature ==
    [][(last'.op = "get_feature" /\ now' = now) =>
          LET name == last'.name IN
          /\ DOMAIN features' = DOMAIN features
          /\ name \notin DOMAIN features =>
                (~last'.ok /\ last'.error = "ValueError" /\ last'.missing = name)
          /\ (~last'.ok /\ last'.error = "ValueError" /\ last'.missing # name) =>
                /\ last'.missing \notin DOMAIN features
                /\ \A j \in 1..Len(last'.invoked) : last'.invoked[j] # name
                /\ features'[name] = features[name]
          /\ (/\ name \in DOMAIN features
              /\ ~IsCacheValid(features[name])
              /\ features[name].compute_fn # "no_fn"
              /\ \E i \in 1..Len(features[name].dependencies) :
                    /\ features[name].dependencies[i] \notin DOMAIN features
                    /\ \A j \in 1..(i - 1) :
                          /\ features[name].dependencies[j] \in DOMAIN features
                          /\ IsCacheValid(features[features[name].dependencies[j]]))
             => (~last'.ok /\ last'.error = "ValueError" /\ last'.missing # name)]_vars

\* C9 witness: get of a registered feature failed on its unregistered second
\* dependency after the first dependency was resolved.
C9_Witness ==
    /\ last.op = "get_feature"
    /\ ~last.ok
    /\ last.error = "ValueError"
    /\ last.name = "A"
    /\ last.missing = "C"
    /\ "A" \in DOMAIN features
    /\ last.invoked = <<"B">>

\* C10: get_feature_vector never raises; its map has an entry for every requested
\* name, None for a name whose resolution fails and otherwise the value that
\* get_feature returns for that name.
C10_VectorPartial ==
    [][(last'.op = "get_feature_vector" /\ now' = now) =>
          /\ ~last'.raised
          /\ DOMAIN last'.features = {last'.names[i] : i \in 1..Len(last'.names)}
          /\ \A n \in DOMAIN last'.features :
                LET r == GetFeature(features, n, last'.context, 1)
                IN  last'.features[n] = IF r.ok THEN r.value ELSE None]_vars

\* C10 witness: a vector call in which one name was unregistered, one had a
\* throwing compute function, and a third got a value.
C10_Witness ==
    /\ last.op = "get_feature_vector"
    /\ \E n \in DOMAIN last.features : n \notin DOMAIN features /\ last.features[n] = None
    /\ \E n \in DOMAIN last.features : last.features[n] # None
    /\ \E n \in DOMAIN last.features \cap DOMAIN features :
          features[n].compute_fn = "raises" /\ last.features[n] = None

C12_ForcedExploration ==
    /\ last.op = "select_arm" =>
          ((\E i \in 1..Len(bandit.arms) : bandit.arms[i].n_pulls = 0)
              => bandit.arms[last.arm + 1].n_pulls = 0)
    /\ pairing.serial =>
          /\ \A i, j \in 1..Len(pairing.picks) :
                (i < j /\ j <= NumArms) => pairing.picks[i] # pairing.picks[j]
          /\ Len(pairing.picks) >= NumArms =>
                {pairing.picks[i] : i \in 1..NumArms} = 0..(NumArms - 1)

\* C12 witness: NumArms select calls, each followed by an observe on the arm it
\* returned, have been made on a fresh policy.
C12_Witness ==
    /\ bandit.method = "ucb"
    /\ pairing.serial
    /\ pairing.pending = None
    /\ Len(pairing.picks) = NumArms
    /\ bandit.total_pulls = NumArms

\* C15: on a UCB policy every arm's pull count is the length of its reward list,
\* total_pulls is the sum of the pull counts, and a select call changes neither
\* a counter nor a reward list.
C15_CountersAgree ==
    /\ [](bandit.method = "ucb" =>
            /\ \A i \in 1..Len(bandit.arms) :
                  bandit.arms[i].n_pulls = Len(bandit.arms[i].rewards)
            /\ bandit.total_pulls
                  = Sum([i \in 1..Len(bandit.arms) |-> bandit.arms[i].n_pulls]))
    /\ [][last'.op = "select_arm" => bandit' = bandit]_vars

\* C15 witness: a select call on a policy in which one arm was observed twice
\* and another never.
C15_Witness ==
    /\ last.op = "select_arm"
    /\ \E i \in 1..Len(bandit.arms) : bandit.arms[i].n_pulls = 2
    /\ \E i \in 1..Len(bandit.arms) : bandit.arms[i].n_pulls = 0
    /\ bandit.total_pulls >= 3

\* the last call was select_config with freezing enabled and a canary-health
\* signal below the floor of 0.3
LastFrozen ==
    /\ last.op = "select_config"
    /\ last.freeze_on_anomaly
    /\ Get(last.metrics, "canary_metric", 40) < 30

\* C13: select_config with freezing enabled and the canary-health signal below
\* 0.3 returns canary allocation 0, the frozen reason code and freeze flag "yes",
\* does not invoke the policy's select, and leaves the statistics of every arm
\* as they were, for the UCB and for the Thompson-sampling method.
C13_FrozenBypassesPolicy ==
    [][LastFrozen' =>
          /\ last'.result.canary_percentage = 0
          /\ last'.result.reason = "anomaly_detected_frozen"
          /\ last'.result.freeze_on_anomaly = "yes"
          /\ ~last'.selected
          /\ bandit' = bandit]_vars

\* C13 witness: a frozen select_config on a Thompson-sampling wrapper that has
\* observed rewards.
C13_Witness ==
    /\ LastFrozen
    /\ bandit.method = "thompson_sampling"
    /\ \E i \in 1..NumArms : bandit.n_pulls[i] > 0
    /\ last.result.canary_percentage = 0

\* C14: the configuration a frozen select_config returns is the arm with the
\* highest mean observed reward, for both methods.
C14_FrozenReturnsBestKnown ==
    LastFrozen =>
        \A j \in 1..NumArms :
            ObservedMean(bandit, last.result.best_config_id) >= ObservedMean(bandit, j)

\* C16: on a Thompson-sampling wrapper every alpha and beta is at least the prior
\* and alpha + beta is the prior sum plus the pull count; an update_feedback call
\* hands the policy a reward within [0,1], lowers no alpha and no beta, and
\* raises alpha + beta of the observed arm by exactly 1.
C16_BetaParameters ==
    /\ [](bandit.method = "thompson_sampling" =>
            \A i \in 1..NumArms :
                /\ bandit.alpha[i] >= One
                /\ bandit.beta[i] >= One
                /\ bandit.alpha[i] + bandit.beta[i] = 2 * One + One * bandit.n_pulls[i])
    /\ [][bandit.method = "thompson_sampling" =>
            /\ \A i \in 1..NumArms :
                  /\ bandit'.alpha[i] >= bandit.alpha[i]
                  /\ bandit'.beta[i] >= bandit.beta[i]
            /\ (last'.op = "update_feedback" /\ ~last'.raised) =>
                  /\ 0 <= last'.normalized_reward
                  /\ last'.normalized_reward <= One
                  /\ \A i \in 1..NumArms :
                        bandit'.alpha[i] + bandit'.beta[i] =
                           bandit.alpha[i] + bandit.beta[i]
                             + (IF i = PyIndex(last'.arm_id, NumArms) THEN One ELSE 0)]_vars

\* C16 witness: update_feedback with a reward above 1 on a Thompson-sampling
\* wrapper that had been given a negative reward before.
C16_Witness ==
    /\ bandit.method = "thompson_sampling"
    /\ last.op = "update_feedback"
    /\ ~last.raised
    /\ last.reward > One
    /\ last.normalized_reward = One
    /\ \E i \in 1..NumArms : bandit.beta[i] = 2 * One

(***************************************************************************)
(* Properties of the changepoint detector.                                 *)
(***************************************************************************)
\* C17: whatever observations were fed since construction or since a reset,
\* after each update of the Bayesian detector the run-length belief vector has
\* step + 1 entries and there is one sufficient-statistics record per entry
C17_LengthsAgree ==
    (last.op = "update" /\ SCIPY_AVAILABLE) =>
        /\ Len(detector.run_length_dist) = detector.step + 1
        /\ Len(detector.observation_params) = Len(detector.run_length_dist)

\* the third update of a stream has grown the belief vector to three entries
C17_Witness ==
    /\ last.op = "update"
    /\ SCIPY_AVAILABLE
    /\ Len(stream.fed) = 3
    /\ Len(detector.run_length_dist) = 3
    /\ detector.step = 2

\* C18: every changepoint probability update returns lies in [0,1] and is the
\* normalized probability mass of run length 0, the first entry of the belief
\* vector update has just stored (to within one unit of the belief's fixed
\* point); the first observation, answered with 0.0, is left out
C18_NormalizedProbability ==
    (last.op = "update" /\ SCIPY_AVAILABLE /\ Len(stream.fed) >= 2) =>
        /\ last.changepoint_prob >= 0
        /\ last.changepoint_prob <= Unit * 1000
        /\ last.changepoint_prob - detector.run_length_dist[1] * 1000 <= 1000
        /\ detector.run_length_dist[1] * 1000 - last.changepoint_prob <= 1000

\* C19: with the default hazard rate and threshold, once a constant stream has
\* been followed by a jump of ten prior standard deviations and one further
\* observation, update has returned a changepoint probability above 0.5 at the
\* jump or after it, and has recorded a changepoint
C19_JumpDetected ==
    ( /\ SCIPY_AVAILABLE
      /\ detector.hazard_rate = DEFAULT_HAZARD_RATE
      /\ detector.threshold = DEFAULT_THRESHOLD
      /\ Len(stream.fed) >= 5
      /\ stream.fed[1] = stream.fed[2]
      /\ stream.fed[2] = stream.fed[3]
      /\ stream.fed[4] # stream.fed[3] ) =>
        /\ \E k \in 4..Len(stream.fed) :
              stream.returned[k].changepoint_prob > DEFAULT_THRESHOLD * 1000
        /\ detector.changepoints # <<>>

RECURSIVE Replay(_, _, _)
\* the tuples update returns, one after the other, to a detector d fed `fed`
Replay(scipy, d, fed) ==
    IF fed = <<>> THEN <<>>
    ELSE LET o == UpdateOutcome(scipy, d, Head(fed))
         IN  << [changepoint_prob |-> o.changepoint_prob,
                 run_length |-> o.run_length] >>
             \o Replay(scipy, o.detector, Tail(fed))

\* C20: in both modes, the outputs update has returned since the last reset (or
\* since construction) are the outputs of a freshly constructed detector fed
\* the same observations: nothing seen before the reset influences them
C20_ResetRestores ==
    stream.returned =
        Replay(SCIPY_AVAILABLE,
               NewDetector(detector.hazard_rate, detector.threshold), stream.fed)

(***************************************************************************)
(* Properties of the tail-risk estimator.                                  *)
(***************************************************************************)
\* C21: calculate_return_period(count, window) returns window * 10 for count 0,
\* 1 when count exceeds window, and otherwise the integer quotient of window by
\* count
C21_ReturnPeriod ==
    last.op = "calculate_return_period" =>
        LET n == last.n_exceedances
            w == last.window_size
            r == last.result
        IN  /\ n = 0 => r = w * 10
            /\ n > w => r = 1
            /\ (0 < n /\ n <= w) => (r * n <= w /\ w < (r + 1) * n)
            /\ (n = 0 /\ w = 1000) => r = 10000
            /\ (n = 10 /\ w = 1000) => r = 100

\* a count above the window was asked for and answered with 1
C21_Witness ==
    /\ last.op = "calculate_return_period"
    /\ last.n_exceedances = 3
    /\ last.window_size = 1
    /\ last.result = 1

\* C22: for a fitted model, predict_extreme_probability never increases with its
\* input, below, at and above the fitted threshold
C22_Monotone ==
    (evt.fitted /\ evt.threshold # None) =>
        \A a \in TailValues, b \in TailValues :
            a <= b => PredictOutcome(evt, a).result >= PredictOutcome(evt, b).result

\* C23: an unfitted model answers 0 to predict_extreme_probability and (0, 0)
\* to estimate_var_cvar, whatever shape and scale an earlier fit left behind; a
\* fit that finds fewer declustered exceedances than min_exceedances leaves the
\* model unfitted, and only a fit that found at least min_exceedances makes it
\* fitted
C23_UnfittedAfterShortFit ==
    /\ [](~evt.fitted =>
            /\ \A value \in TailValues :
                  PredictOutcome(evt, value) = [result |-> 0, raised |-> FALSE]
            /\ \A confidence \in Confidences :
                  VarCvarOutcome(evt, confidence)
                      = [result |-> <<0, 0>>, raised |-> FALSE])
    /\ [][ /\ ( /\ last'.op = "fit"
                /\ last'.declustered # None
                /\ last'.declustered < evt.min_exceedances ) => ~evt'.fitted
           /\ (evt'.fitted /\ ~evt.fitted) =>
                  /\ last'.op = "fit"
                  /\ last'.declustered # None
                  /\ last'.declustered >= evt.min_exceedances ]_vars

\* a fit has succeeded and left its parameters, and the fit just made found too
\* few exceedances: the model is unfitted
C23_Witness ==
    /\ last.op = "fit"
    /\ last.declustered # None
    /\ last.declustered < evt.min_exceedances
    /\ evt.gpd_shape # None
    /\ ~evt.fitted

(***************************************************************************)
(* Properties of the safety controller with disabled checks.               *)
(***************************************************************************)
\* the checks registered for the decision type of the last validate call
C24_Registered == Get(checks, last.model_type, <<>>)

RECURSIVE C24_Enabled(_)
\* the enabled checks of a list, in registration order
C24_Enabled(chs) ==
    IF chs = <<>> THEN <<>>
    ELSE (IF Head(chs).enabled THEN <<Head(chs)>> ELSE <<>>) \o C24_Enabled(Tail(chs))

\* C24: with both switches off, validate invokes the predicates of the enabled
\* checks of the decision type, in order, and of no disabled one; its
\* violations and warnings are those of the enabled checks alone; and
\* checks_run in the metadata is the number of checks it evaluated
C24_EnabledChecksRun ==
    (last.op = "validate" /\ SwitchesOff) =>
        LET enabled == C24_Enabled(C24_Registered)
            alone == RunChecks(enabled, 1, last.output, last.context, EmptyAcc)
        IN  /\ last.invoked = [k \in 1..Len(enabled) |-> enabled[k].name]
            /\ last.result.violations = alone.violations
            /\ last.result.warnings = alone.warnings
            /\ last.result.metadata.checks_run = Len(last.invoked)

(***************************************************************************)
(* Further properties of the feature store.                                *)
(***************************************************************************)
\* C25: register_feature never fails on a name registered before and overwrites
\* it: the name then holds a feature of the new definition with an empty cache
\* entry, the other features are untouched, and the next get of the name does
\* not answer from a cache (it ends in the compute function of the name, unless
\* it fails or the new definition has no compute function), even inside the TTL
\* window of the value cached under the old definition
C25_RegisterOverwrites ==
    [][ /\ last'.op = "register_feature" =>
              /\ last'.name \in DOMAIN features'
              /\ \E reg \in RegInputs :
                    /\ reg[1] = last'.name
                    /\ features'[last'.name] = Feature(reg[2], reg[3])
              /\ features'[last'.name].cached_value = None
              /\ \A n \in DOMAIN features \ {last'.name} :
                    n \in DOMAIN features' /\ features'[n] = features[n]
        /\ ( /\ last.op = "register_feature"
             /\ last'.op = "get_feature"
             /\ last'.name = last.name
             /\ last'.ok
             /\ features[last.name].compute_fn # "no_fn" ) =>
                /\ last'.invoked # <<>>
                /\ last'.invoked[Len(last'.invoked)] = last.name ]_vars

\* a name was registered again while the value cached under its old definition
\* was still inside its TTL window
C25_Witness ==
    /\ last.op = "register_feature"
    /\ last.had_value
    /\ features[last.name].cached_value = None


\* the names a feature declares as dependencies
C26_DependsOn(fs, n) ==
    IF n \in DOMAIN fs
    THEN {fs[n].dependencies[i] : i \in 1..Len(fs[n].dependencies)}
    ELSE {}

RECURSIVE C26_Reachable(_, _)
\* the names reachable from a set of names along dependencies
C26_Reachable(fs, S) ==
    LET T == S \cup UNION {C26_DependsOn(fs, n) : n \in S}
    IN  IF T = S THEN S ELSE C26_Reachable(fs, T)

\* the names reachable from a name by at least one dependency
C26_Below(fs, n) == C26_Reachable(fs, C26_DependsOn(fs, n))

\* the dependency graph reachable from a name has no cycle
C26_Acyclic(fs, name) ==
    \A n \in C26_Reachable(fs, {name}) : n \notin C26_Below(fs, n)

\* the features on a dependency cycle through a name
C26_CycleOf(fs, name) ==
    {n \in C26_Below(fs, name) : name \in C26_Below(fs, n)}

\* the name lies on a cycle and no feature on a cycle through it has a valid
\* cache entry
C26_ColdCycle(fs, name) ==
    /\ name \in C26_Below(fs, name)
    /\ \A n \in C26_CycleOf(fs, name) : ~IsCacheValid(fs[n])

C27_WholeEntries ==
    /\ (SharedFeature \in DOMAIN features /\ IsCacheValid(features[SharedFeature]))
          => inflight.value_by = inflight.time_by
    /\ (\A t \in Threads : inflight.pc[t] = "idle")
          => inflight.value_by = inflight.time_by
    /\ (last.op = "get_feature" /\ "stale" \in DOMAIN last) => ~last.stale


(***************************************************************************)
(* Properties of the bandits under interleaved callers.                    *)
(***************************************************************************)

\* some arm of the policy was pulled twice while another was never pulled
C28_PulledTwiceBeforeAll ==
    \E i, j \in 1..Len(bandit.arms) :
        bandit.arms[i].n_pulls >= 2 /\ bandit.arms[j].n_pulls = 0

\* C28: as long as every select call on a UCB policy was followed by the observe
\* call on its arm before the next select call, no arm is pulled a second time
\* while another arm has zero pulls.
C28_SerializedPairsExplore ==
    (bandit.method = "ucb" /\ pairing.serial) => ~C28_PulledTwiceBeforeAll

\* C28 witness: callers interleaved their select and observe calls, every
\* observe call was on an arm a select call had handed out, and an arm was
\* pulled twice while another was never pulled.
C28_Witness ==
    /\ bandit.method = "ucb"
    /\ ~pairing.serial
    /\ pairing.faithful
    /\ pairing.handed = <<>>
    /\ C28_PulledTwiceBeforeAll


\* C29: the canary allocation select_config returns passes the default
\* canary_percentage_safe check (0 to 10): it is 0 on the frozen path, and
\* otherwise the health signal times 10, cut to an integer and clamped to 1..5.
C29_CanaryInSafeRange ==
    last.op = "select_config" =>
        LET canary_metric == Get(last.metrics, "canary_metric", 40)
            cut == IF canary_metric >= 0 THEN canary_metric \div 10
                   ELSE -((-canary_metric) \div 10)
            canary_percentage == last.result.canary_percentage
        IN  /\ CallCheck("canary_percentage_safe", last.result, last.metrics) = "pass"
            /\ canary_percentage \in 0..10
            /\ IF last.freeze_on_anomaly /\ canary_metric < 30
               THEN canary_percentage = 0
               ELSE /\ canary_percentage \in 1..5
                    /\ cut \in 1..5 => canary_percentage = cut
                    /\ cut < 1 => canary_percentage = 1
                    /\ cut > 5 => canary_percentage = 5

\* C29 witness: select_config returned allocations for a health signal above
\* the clamp range on the path that is not frozen.
C29_Witness ==
    /\ last.op = "select_config"
    /\ Get(last.metrics, "canary_metric", 40) > 1000
    /\ last.result.canary_percentage = 5


(***************************************************************************)
(* Properties of the regime classification.                                *)
(***************************************************************************)

\* C30: the regime detect_regime_change reports is a threshold function of the
\* change probability p it decided on: transitioning iff p > 0.7, unstable iff
\* 0.3 < p <= 0.7, stable iff p <= 0.3, and exploration is frozen iff p > 0.5; so
\* a transitioning regime freezes exploration and a stable one does not.
C30_RegimeThresholds ==
    last.op = "detect_regime_change" =>
        LET p == last.change_prob
            r == last.result
        IN  /\ r.regime_state \in {"transitioning", "unstable", "stable"}
            /\ r.regime_state = "transitioning" <=> p > 700000
            /\ r.regime_state = "unstable" <=> (300000 < p /\ p <= 700000)
            /\ r.regime_state = "stable" <=> p <= 300000
            /\ r.freeze_exploration = "yes" <=> p > 500000
            /\ r.freeze_exploration \in {"yes", "no"}
            /\ r.regime_state = "transitioning" => r.freeze_exploration = "yes"
            /\ r.regime_state = "stable" => r.freeze_exploration = "no"

\* C30 witness: detect_regime_change decided on a change probability of exactly
\* 0.7 and reported an unstable regime with exploration frozen.
C30_Witness ==
    /\ last.op = "detect_regime_change"
    /\ last.change_prob = 700000
    /\ last.result.regime_state = "unstable"
    /\ last.result.freeze_exploration = "yes"


(***************************************************************************)
(* Properties of the recorded changepoints.                                *)
(***************************************************************************)

\* the zero-based positions in the stream of the observations whose update
\* returned a changepoint mass above the threshold
C31_Triggers ==
    {i - 1 : i \in {j \in 1..Len(stream.returned) :
                       stream.returned[j].changepoint_prob > detector.threshold * 1000}}

\* C31: with scipy, the changepoints recorded are exactly the zero-based stream
\* positions of the observations whose update returned a changepoint mass above
\* the threshold, and the list is strictly increasing.
C31_ChangepointsAtPositions ==
    SCIPY_AVAILABLE =>
        /\ {detector.changepoints[k] : k \in 1..Len(detector.changepoints)} = C31_Triggers
        /\ \A k \in 1..(Len(detector.changepoints) - 1) :
              detector.changepoints[k] < detector.changepoints[k + 1]


(***************************************************************************)
(* Properties of the fallback detector's window.                           *)
(***************************************************************************)

\* C32: without scipy the window holds at most WINDOW observations, the most
\* recent ones in arrival order; every probability update returned is within
\* [0, 0.99], and it is 0 while fewer than RECENT observations are held or when
\* all observations held are equal (standard deviation 0).
C32_WindowAndRange ==
    /\ Len(detector.recent_values) <= WINDOW
    /\ detector.recent_values = LastOf(stream.fed, WINDOW)
    /\ \A i \in 1..Len(stream.returned) :
          /\ stream.returned[i].changepoint_prob >= 0
          /\ stream.returned[i].changepoint_prob <= 990000
          /\ i < RECENT => stream.returned[i].changepoint_prob = 0
    /\ last.op = "update" =>
          ((\A i, j \in 1..Len(detector.recent_values) :
               detector.recent_values[i] = detector.recent_values[j])
              => last.changepoint_prob = 0)

\* C32 witness: more than WINDOW observations were fed, the window is full, and
\* the last update returned the capped probability 0.99.
C32_Witness ==
    /\ ~SCIPY_AVAILABLE
    /\ Len(stream.fed) > WINDOW
    /\ Len(detector.recent_values) = WINDOW
    /\ last.op = "update"
    /\ last.changepoint_prob = 990000


(***************************************************************************)
(* Properties of the declustering scan.                                    *)
(***************************************************************************)

\* the largest entry of a non-empty list
C33_Max(s) == CHOOSE x \in {s[i] : i \in 1..Len(s)} : \A i \in 1..Len(s) : s[i] <= x

\* the maxima of the consecutive windows of size w that partition s, the last
\* window possibly shorter
C33_WindowMaxima(s, w) ==
    [k \in 1..((Len(s) + w - 1) \div w) |->
        C33_Max(SubSeq(s, (k - 1) * w + 1,
                       IF k * w < Len(s) THEN k * w ELSE Len(s)))]

\* C33: declustering with window size w >= 1 returns the per-window maxima of
\* the partition of the exceedances into consecutive windows of size w.
C33_PartitionMaxima ==
    last.op = "decluster" =>
        last.result = C33_WindowMaxima(last.exceedances, evt.declustering_window)


(***************************************************************************)
(* Properties of the fallback outputs.                                     *)
(***************************************************************************)

\* C34: with both switches off, the gate accepts the fallback output of every
\* decision type that has default checks, whatever the context.
C34_FallbackAccepted ==
    (/\ last.op = "validate"
     /\ "model_type" \in DOMAIN last.result.metadata
     /\ last.model_type \in FallbackTypes
     /\ last.output = Fallback(last.model_type))
        => last.result.is_safe


(***************************************************************************)
(* Properties of the verdict and the aggregated severity.                  *)
(***************************************************************************)

\* C35: on every path of validate, is_safe is false exactly when safety_level
\* is unsafe or critical and true exactly when it is safe or warning, and
\* safety_level is warning only if the warnings list is non-empty.
C35_VerdictMatchesSeverity ==
    last.op = "validate" =>
        /\ (~last.result.is_safe) <=> (last.result.safety_level \in {"unsafe", "critical"})
        /\ last.result.is_safe <=> (last.result.safety_level \in {"safe", "warning"})
        /\ last.result.safety_level = "warning" => last.result.warnings # <<>>

\* the checks ran, one of warning severity failed and none was filed as a violation
C35_Witness ==
    /\ last.op = "validate"
    /\ "checks_run" \in DOMAIN last.result.metadata
    /\ last.result.safety_level = "warning"
    /\ last.result.is_safe
    /\ Len(last.invoked) = 2


(***************************************************************************)
(* Properties of invalidation by name.                                     *)
(***************************************************************************)

\* a step that is invalidate_cache with a name
C36_NamedInvalidate ==
    /\ last'.op = "invalidate_cache"
    /\ last'.name # ""
    /\ InvalidateCache(last'.name)

\* a step that is get_feature of a feature whose own cache entry is valid
C36_GetOfValidEntry ==
    /\ last'.op = "get_feature"
    /\ GetFeatureCall(last'.name, last'.context)
    /\ last'.name \in DOMAIN features
    /\ IsCacheValid(features[last'.name])

\* C36: invalidate_cache with a name leaves every other feature's cache entry
\* as it was, and a feature whose own entry is valid (its dependencies' entries
\* cleared or not) is served from that entry without any compute function being
\* invoked.
C36_InvalidateNamedOnly ==
    /\ [][C36_NamedInvalidate =>
            /\ DOMAIN features' = DOMAIN features
            /\ \A n \in DOMAIN features : n # last'.name => features'[n] = features[n]]_vars
    /\ [][C36_GetOfValidEntry =>
            /\ last'.ok
            /\ last'.invoked = <<>>
            /\ last'.value = features[last'.name].cached_value
            /\ features' = features]_vars

\* C36 witness: the derived feature A is served from its entry after the entry of
\* its dependency B has been cleared.
C36_Witness ==
    /\ last.op = "get_feature"
    /\ last.name = "A"
    /\ last.ok
    /\ last.invoked = <<>>
    /\ last.value # None
    /\ "B" \in DOMAIN features
    /\ features["A"].dependencies = <<"B">>
    /\ features["B"].compute_fn = "derive"
    /\ features["B"].cached_value = None
    /\ IsCacheValid(features["A"])


(***************************************************************************)
(* Properties of computed nulls.                                           *)
(***************************************************************************)

\* the names in a list of invocations
C37_Names(invoked) == {invoked[i] : i \in 1..Len(invoked)}

\* a step that is get_feature of the feature whose compute function returned
\* null in the previous call of get_feature
C37_GetAfterNull ==
    /\ last.op = "get_feature"
    /\ last.ok
    /\ last.value = None
    /\ last.name \in C37_Names(last.invoked)
    /\ last'.op = "get_feature"
    /\ last'.name = last.name
    /\ GetFeatureCall(last'.name, last'.context)

\* C37: a get of a feature whose compute function returned null invokes that
\* function again, after resolving the dependencies whose entries are not valid,
\* also inside the TTL window; after a non-null value, gets inside the TTL
\* window invoke no compute function.
C37_NullNeverCached ==
    /\ [][C37_GetAfterNull =>
            /\ last'.invoked # <<>>
            /\ last'.invoked[Len(last'.invoked)] = last.name
            /\ \A i \in 1..Len(features[last.name].dependencies) :
                 LET dep == features[last.name].dependencies[i]
                 IN  (dep \in DOMAIN features /\ ~IsCacheValid(features[dep])
                        /\ features[dep].compute_fn # "no_fn")
                        => dep \in C37_Names(last'.invoked)]_vars
    /\ [][(C8_SecondCallInWindow /\ GetFeatureCall(last'.name, last'.context)
              /\ last.value # None)
            => last'.invoked = <<>>]_vars

\* C37 witness: a get inside the TTL window of a stored null computed the
\* feature again and returned null again.
C37_Witness ==
    /\ last.op = "get_feature"
    /\ last.stored_null
    /\ last.ok
    /\ last.value = None
    /\ last.invoked # <<>>
    /\ last.invoked[Len(last.invoked)] = last.name
    /\ features[last.name].last_updated = now


(***************************************************************************)
(* Properties of feedback by configuration id.                             *)
(***************************************************************************)

\* the statistics of the arm at position i
C38_ArmStats(b, i) ==
    IF b.method = "ucb" THEN <<b.arms[i]>> ELSE <<b.alpha[i], b.beta[i], b.n_pulls[i]>>

\* C38: update_feedback(config_id, reward) with config_id in 1..num_configs
\* changes the statistics of arm config_id - 1 and of no other arm; with any
\* other config_id it fails and leaves all arm statistics unchanged.
C38_FeedbackTargetsArm ==
    [][(last'.op = "update_feedback" /\ UpdateFeedbackCall(last'.config_id, last'.reward)) =>
          IF last'.config_id \in 1..NumArms
          THEN /\ ~last'.raised
               /\ C38_ArmStats(bandit', last'.config_id) # C38_ArmStats(bandit, last'.config_id)
               /\ \A i \in 1..NumArms :
                     i # last'.config_id => C38_ArmStats(bandit', i) = C38_ArmStats(bandit, i)
          ELSE /\ last'.raised
               /\ bandit' = bandit]_vars


(***************************************************************************)
(* Properties of the configuration manager.                                *)
(***************************************************************************)

\* C39: after any sequence of create_version, validate_version, deploy_version
\* and rollback calls at most one version has status ACTIVE, and the version
\* referenced as active has status ACTIVE.
C39_OneActive ==
    /\ Cardinality({i \in 1..Len(config.versions) : config.versions[i].status = "active"}) <= 1
    /\ config.active_version # None =>
          config.versions[config.active_version].status = "active"

\* a step that is deploy_version of a version that is missing or not APPROVED
C40_DeployUnapproved ==
    /\ last'.op = "deploy_version"
    /\ DeployVersion(last'.version_id)
    /\ IF GetVersion(config, last'.version_id) = None THEN TRUE
       ELSE config.versions[last'.version_id].status # "approved"

\* C40: the active version has reached status APPROVED at some time before, and
\* deploy_version of a version that is not APPROVED fails and leaves the
\* statuses and the active version unchanged.
C40_ActiveWasApproved ==
    /\ [](config.active_version # None =>
            config.versions[config.active_version].reached_approved)
    /\ [][C40_DeployUnapproved => (last'.raised /\ config' = config)]_vars

====
